---- MODULE Spec2Model ----
(***************************************************************************)
(* ProDash script resolution and execution engine.                         *)
(*                                                                         *)
(* ScriptExecutionService.execute / resolveScript / resolveVariables,      *)
(* TerminalService.runInTerminal and ProjectService.loadAndResolveProjects *)
(* with the ON_ACTIVATE scripts it starts, modelled as a state machine.    *)
(*                                                                         *)
(* A command line is a sequence of atoms.  An atom is a piece of text the  *)
(* two regular expressions of the service never look inside: the opening   *)
(* "{{", the closing "}}", the keyword "RUN_SCRIPT:", a run of upper-case  *)
(* letters/underscores, or other text.  The text of a line is the          *)
(* concatenation of its atoms.                                             *)
(***************************************************************************)
EXTENDS Integers, Sequences, FiniteSets, TLC

VARIABLES
  scripts,      \* what ScriptService.getScripts(project.path) returns
  project,      \* the Project record handed to execute
  gcfg,         \* ProjectService.instance.globalConfigurationPath
  phase,        \* per execution: position in execute / runInTerminal
  root,         \* per execution: scriptToRun
  cur,          \* the execution whose resolveScript recursion is running
  frames,       \* the resolveScript activation records, outermost first
  allCommands,  \* per execution: the resolved flat command list
  error,        \* per execution: the Error execute re-throws
  thrownAt,     \* per execution: seenScripts of the activation that threw
  log,          \* per execution: its LoggingService output, in order
  terminals,    \* vscode.window.terminals, each with the lines it was given
  runTerm,      \* per execution: the terminal getTerminal returned
  hasSI,        \* per execution: hasShellIntegration
  idx,          \* per execution: the index of the line the loop is at
  listeners,    \* the registered, not yet disposed, event listeners
  timers,       \* the executions whose 3000 ms timer has not fired yet
  inflight,     \* the shell executions started and not yet ended
  ended,        \* per execution: the exit codes its listener has observed
  warnedAboutFallback,  \* TerminalService.warnedAboutFallback
  projectsFile,     \* the entries of projects.jsonc the last load has read
  workspaceFolders, \* vscode.workspace.workspaceFolders at the last load
  projects,         \* ProjectService._projects
  currentProject,   \* ProjectService._currentProject
  shown,            \* the warning message the last load has shown
  chains,           \* the promise chains of ON_ACTIVATE scripts, oldest first
  alog,             \* what the catch of these chains has logged
  dashDirs,         \* the directories that hold a .prodash directory
  dashOf,           \* per element of projects: its proDashPath
  disk,             \* the content of the files the model follows
  lastFileContents, \* FileWatcherService.lastFileContents
  watchers,         \* FileWatcherService.watchers
  created,          \* every file system watcher created so far
  pending,          \* the watchers with a file event not yet delivered
  refreshes,        \* the number of calls of ProDashTreeProvider.refresh
  wlog              \* what the last file event has logged

----------------------------------------------------------------------------
(* Bounds *)

MaxTotalLines == 3
MaxExecs == 2
MaxProjects == 2
MaxFolders == 2
MaxChains == 2
MaxActivate == 3
MaxRefreshes == 2

Execs == 1..MaxExecs

----------------------------------------------------------------------------
(* Text *)

LB == "{{"
RB == "}}"
RUN == "RUN_SCRIPT:"
BSL == "\\"
FSL == "/"

Undefined == "<undefined>"
NoPath == <<Undefined>>

\* atoms made only of [A-Z_]
UpperAtoms ==
  {"PROJECT_PATH", "PRODASH_PATH", "GLOBALCONFIG_PATH", "DESCRIPTION_FILE",
   "LONGDESCRIPTION_FILE", "FULLDESCRIPTION_FILE", "FOO", "A", "B", "C", "D",
   "X"}

RECURSIVE Concat(_)
Concat(s) == IF s = <<>> THEN "" ELSE Head(s) \o Concat(Tail(s))

Min(S) == CHOOSE x \in S : \A y \in S : x <= y

RECURSIVE Sorted(_)
Sorted(S) == IF S = {} THEN <<>> ELSE <<Min(S)>> \o Sorted(S \ {Min(S)})

\* /\{\{RUN_SCRIPT:([^}]+)\}\}/ matched with the "{{" at atom i
DirectiveEnd(line, i) ==
  {j \in (i + 3)..Len(line) :
     /\ line[j] = RB
     /\ \A k \in (i + 2)..(j - 1) : line[k] # RB}

DirectiveAt(line, i) ==
  /\ i + 1 <= Len(line)
  /\ line[i] = LB
  /\ line[i + 1] = RUN
  /\ DirectiveEnd(line, i) # {}

DirectiveStarts(line) == {i \in 1..Len(line) : DirectiveAt(line, i)}

\* command.match(...) is not null
IsDirective(line) == DirectiveStarts(line) # {}

\* the capture group of the last directive of the line
RunScriptNameLast(line) ==
  LET i == CHOOSE k \in DirectiveStarts(line) :
             \A m \in DirectiveStarts(line) : m <= k
      j == Min(DirectiveEnd(line, i))
  IN  Concat(SubSeq(line, i + 2, j - 1))

\* runScriptMatch[1]: the capture group of the first (leftmost) match
RunScriptName(line) ==
  LET i == Min(DirectiveStarts(line))
      j == Min(DirectiveEnd(line, i))
  IN  Concat(SubSeq(line, i + 2, j - 1))

\* String.prototype.trim on a sequence of atoms: the blank atoms at both
\* ends are dropped
RECURSIVE TrimAtoms(_)
TrimAtoms(s) ==
  IF s = <<>> THEN <<>>
  ELSE IF Head(s) = " " THEN TrimAtoms(Tail(s))
  ELSE IF s[Len(s)] = " " THEN TrimAtoms(SubSeq(s, 1, Len(s) - 1))
  ELSE s

\* Script.expandScriptCalls: scriptCallMatch[1].trim()
CalledScriptName(line) ==
  LET i == Min(DirectiveStarts(line))
      j == Min(DirectiveEnd(line, i))
  IN  Concat(TrimAtoms(SubSeq(line, i + 2, j - 1)))

\* the path is returned as it is stored
GetSafePathRaw(path) ==
  IF path = NoPath \/ Concat(path) = "" THEN <<>> ELSE path

\* getSafePath
GetSafePath(path) ==
  IF path = NoPath \/ Concat(path) = ""
  THEN <<>>
  ELSE [k \in 1..Len(path) |-> IF path[k] = BSL THEN FSL ELSE path[k]]

\* /\{\{([A-Z_]+)\}\}/ matched with the "{{" at atom i: the atom index of "}}"
VarEnd(line, i) ==
  {j \in (i + 2)..Len(line) :
     /\ line[j] = RB
     /\ \A k \in (i + 1)..(j - 1) : line[k] \in UpperAtoms}

VarAt(line, i) == line[i] = LB /\ VarEnd(line, i) # {}

KnownVars ==
  {"PROJECT_PATH", "PRODASH_PATH", "GLOBALCONFIG_PATH", "DESCRIPTION_FILE",
   "LONGDESCRIPTION_FILE", "FULLDESCRIPTION_FILE"}

\* an unknown name is replaced by the empty string
VarValueBlank(variableName, match, proj, globalPath) ==
  CASE variableName = "PROJECT_PATH" -> GetSafePath(proj.path)
    [] variableName = "PRODASH_PATH" -> GetSafePath(proj.proDashPath)
    [] variableName = "GLOBALCONFIG_PATH" -> GetSafePath(globalPath)
    [] variableName = "DESCRIPTION_FILE" -> GetSafePath(proj.descriptionFile)
    [] variableName = "LONGDESCRIPTION_FILE" ->
         GetSafePath(proj.longDescriptionFile)
    [] variableName = "FULLDESCRIPTION_FILE" ->
         GetSafePath(proj.fullDescriptionFile)
    [] OTHER -> <<>>

\* the switch of the replace callback
VarValue(variableName, match, proj, globalPath) ==
  CASE variableName = "PROJECT_PATH" -> GetSafePath(proj.path)
    [] variableName = "PRODASH_PATH" -> GetSafePath(proj.proDashPath)
    [] variableName = "GLOBALCONFIG_PATH" -> GetSafePath(globalPath)
    [] variableName = "DESCRIPTION_FILE" -> GetSafePath(proj.descriptionFile)
    [] variableName = "LONGDESCRIPTION_FILE" ->
         GetSafePath(proj.longDescriptionFile)
    [] variableName = "FULLDESCRIPTION_FILE" ->
         GetSafePath(proj.fullDescriptionFile)
    [] OTHER -> match

\* the separators of the whole line are normalized, not only those of the
\* substituted paths
RECURSIVE ResolveFromSlashed(_, _, _, _)
ResolveFromSlashed(line, i, proj, globalPath) ==
  IF i > Len(line) THEN <<>>
  ELSE IF VarAt(line, i)
       THEN LET j == Min(VarEnd(line, i))
            IN  VarValue(Concat(SubSeq(line, i + 1, j - 1)),
                         SubSeq(line, i, j), proj, globalPath)
                  \o ResolveFromSlashed(line, j + 1, proj, globalPath)
       ELSE <<IF line[i] = BSL THEN FSL ELSE line[i]>>
              \o ResolveFromSlashed(line, i + 1, proj, globalPath)

\* command.replace(/.../g, callback): one left-to-right pass, the text a
\* replacement produces is not scanned again
RECURSIVE ResolveFrom(_, _, _, _)
ResolveFrom(line, i, proj, globalPath) ==
  IF i > Len(line) THEN <<>>
  ELSE IF VarAt(line, i)
       THEN LET j == Min(VarEnd(line, i))
            IN  VarValue(Concat(SubSeq(line, i + 1, j - 1)),
                         SubSeq(line, i, j), proj, globalPath)
                  \o ResolveFrom(line, j + 1, proj, globalPath)
       ELSE <<line[i]>> \o ResolveFrom(line, i + 1, proj, globalPath)

ResolveVariables(command, proj, globalPath) ==
  ResolveFrom(command, 1, proj, globalPath)

\* the warnings the default branch of the callback logs, in order
RECURSIVE WarningsFrom(_, _)
WarningsFrom(line, i) ==
  IF i > Len(line) THEN <<>>
  ELSE IF VarAt(line, i)
       THEN LET j == Min(VarEnd(line, i))
                n == Concat(SubSeq(line, i + 1, j - 1))
            IN  (IF n \in KnownVars THEN <<>>
                 ELSE <<[level |-> "warning", what |-> "unresolved",
                         text |-> Concat(SubSeq(line, i, j))]>>)
                  \o WarningsFrom(line, j + 1)
       ELSE WarningsFrom(line, i + 1)

ResolveWarnings(command) == WarningsFrom(command, 1)

----------------------------------------------------------------------------
(* Scripts *)

\* Array.isArray(script.script) ? script.script : [script.script]
\* (a script given as one string is kept as the string in a list, flagged)
Commands(script) ==
  IF script.single THEN <<script.script[1]>> ELSE script.script

\* the terminal property compared as it is
RawTerminal(script) == script.terminal

\* script.terminal || 'default'
EffTerminal(script) ==
  IF script.terminal = Undefined \/ script.terminal = ""
  THEN "default" ELSE script.terminal

\* name.startsWith('_'), over the names the configurations use
StartsWithUnderscore(name) ==
  \E stem \in {"Loop", "Lint", "Ps", "A", "B", "C", "a", "b", "z"} :
    name = "_" \o stem

\* the filter of the tree view: !s.hidden && !s.name.startsWith('_')
Visible(script) == ~script.hidden /\ ~StartsWithUnderscore(script.name)

\* the target is searched among the scripts the tree shows
FindIdxVisible(all, name) ==
  LET hits == {k \in 1..Len(all) : all[k].name = name /\ Visible(all[k])}
  IN  IF hits = {} THEN 0 ELSE Min(hits)

\* allProjectScripts.find(s => s.name === scriptNameToRun)
FindIdx(all, name) ==
  LET hits == {k \in 1..Len(all) : all[k].name = name}
  IN  IF hits = {} THEN 0 ELSE Min(hits)

\* only the direct caller is looked at
IncludesLast(seen, name) == seen # <<>> /\ seen[Len(seen)] = name

\* seenScripts.includes(name)
Includes(seen, name) == \E k \in 1..Len(seen) : seen[k] = name

NoError == [kind |-> "none"]

\* the error of a cycle that names no script
RecursionErrorBare(script) == [kind |-> "recursive", name |-> ""]

\* throw new Error(`Recursive script execution detected: ...`)
RecursionError(script) == [kind |-> "recursive", name |-> script.name]

\* throw new Error(`Script "..." not found in project "...".`)
NotFoundError(scriptNameToRun, proj) ==
  [kind |-> "notFound", name |-> scriptNameToRun, project |-> proj.name]

\* throw new Error(`Script "..." (terminal: ...) cannot call script ...`)
MismatchError(script, nextScript) ==
  [kind |-> "mismatch",
   parent |-> script.name, parentTerminal |-> EffTerminal(script),
   child |-> nextScript.name, childTerminal |-> EffTerminal(nextScript)]

\* one array shared by caller and callee
SeenAfterCallShared(callerSeen, calleeSeen) == calleeSeen

\* the array the caller holds once the nested call has returned: the nested
\* call was given [...seenScripts], so its pushes are not seen by the caller
SeenAfterCall(callerSeen, calleeSeen) == callerSeen

\* the nested commands put in front
SpliceFront(resolvedCommands, nestedCommands) ==
  nestedCommands \o resolvedCommands

\* resolvedCommands.push(...nestedCommands)
Splice(resolvedCommands, nestedCommands) ==
  resolvedCommands \o nestedCommands

----------------------------------------------------------------------------
(* Configurations the program is started with *)

\* a project resolved with its .prodash directory: the three description
\* files are path.join(proDashPath, name)
DefaultProject ==
  [name |-> "proj", path |-> <<"C:", BSL, "proj">>,
   proDashPath |-> <<"C:", BSL, "proj", BSL, ".prodash">>,
   descriptionFile |-> <<"C:", BSL, "proj", BSL, ".prodash", BSL, "d.$$$">>,
   longDescriptionFile |->
     <<"C:", BSL, "proj", BSL, ".prodash", BSL, "ld.$$$">>,
   fullDescriptionFile |->
     <<"C:", BSL, "proj", BSL, ".prodash", BSL, "fd.$$$">>]

\* a project resolved without .prodash directory, once initializeProjectFiles
\* has created the directory: proDashPath is set, the description files are
\* still undefined
FreshProject ==
  [name |-> "fresh", path |-> <<"C:", BSL, "fresh">>,
   proDashPath |-> <<"C:", BSL, "fresh", BSL, ".prodash">>,
   descriptionFile |-> NoPath, longDescriptionFile |-> NoPath,
   fullDescriptionFile |-> NoPath]

\* a project resolved while it had no .prodash directory
BareProject ==
  [name |-> "bare", path |-> <<"/home/bare">>, proDashPath |-> NoPath,
   descriptionFile |-> NoPath, longDescriptionFile |-> NoPath,
   fullDescriptionFile |-> NoPath]

DefaultGlobalPath == <<"C:", BSL, "Users", BSL, "u", BSL, ".prodash">>

Call(name) == <<LB, RUN, name, RB>>

ScriptRec(name, terminal, lines) ==
  [name |-> name, terminal |-> terminal, single |-> FALSE, script |-> lines,
   hidden |-> FALSE, event |-> Undefined]

SingleRec(name, terminal, line) ==
  [name |-> name, terminal |-> terminal, single |-> TRUE,
   script |-> <<line>>, hidden |-> FALSE, event |-> Undefined]

HiddenRec(name, terminal, line) ==
  [name |-> name, terminal |-> terminal, single |-> TRUE,
   script |-> <<line>>, hidden |-> TRUE, event |-> Undefined]

GenNames == <<"A", "B", "C">>
GenKinds == {"lit", "A", "B", "C"}
GenTerminals == {Undefined, "batch"}

GenLine(n, k, kind) ==
  IF kind = "lit"
  THEN <<"cmd" \o ToString(n) \o "." \o ToString(k)>>
  ELSE Call(kind)

GenScript(n, terminal, kinds) ==
  ScriptRec(GenNames[n], terminal,
            [k \in 1..Len(kinds) |-> GenLine(n, k, kinds[k])])

\* every script set of three scripts A, B, C whose lines are literal commands
\* or directives naming A, B or C, with at most MaxTotalLines lines in all
GenConfigs ==
  {[scripts |-> <<GenScript(1, t[1], k1), GenScript(2, t[2], k2),
                  GenScript(3, t[3], k3)>>,
    project |-> DefaultProject, gcfg |-> DefaultGlobalPath] :
     <<t, k1, k2, k3>> \in
       UNION {UNION {UNION {
         [1..3 -> GenTerminals] \X [1..l1 -> GenKinds] \X [1..l2 -> GenKinds]
            \X [1..l3 -> GenKinds] :
         l3 \in 0..(MaxTotalLines - l1 - l2)} :
         l2 \in 0..(MaxTotalLines - l1)} :
         l1 \in 0..MaxTotalLines}}

\* the README example: Start calls the hidden script Lint
ReadmeConfig ==
  [scripts |-> <<ScriptRec("Start", Undefined,
                           <<<<"echo hi">>, Call("Lint"), <<"npm run start">>>>),
                 ScriptRec("Build", Undefined, <<<<"npm run build">>>>),
                 [ScriptRec("Lint", Undefined, <<<<"npm run lint">>>>)
                    EXCEPT !.hidden = TRUE]>>,
   project |-> DefaultProject, gcfg |-> DefaultGlobalPath]

\* lines with placeholders, an unknown target, a name in blanks, text around
\* a directive, two directives on a line, a single-string script, unknown
\* placeholders, literal backslashes and braces, a line with placeholders
\* and text around two directives
TextConfig(proj) ==
  [scripts |->
     <<ScriptRec("Vars", "powershell",
                 <<<<"cd ", LB, "PROJECT_PATH", RB, " && type ",
                     LB, "DESCRIPTION_FILE", RB>>,
                   <<"echo ", LB, "FOO", RB, LB, "PRODASH_PATH", RB>>,
                   <<LB, "GLOBALCONFIG_PATH", RB, LB, "LONGDESCRIPTION_FILE",
                     RB, LB, "FULLDESCRIPTION_FILE", RB>>>>),
       ScriptRec("Unknown", Undefined, <<<<"echo">>, Call("Nope"), Call("Lint")>>),
       ScriptRec("Blank", Undefined, <<<<LB, RUN, " ", "Lint", " ", RB>>>>),
       ScriptRec("Around", "", <<<<"echo ", LB, "PROJECT_PATH", RB, " ", LB, RUN,
                                   "Lint", RB, " tail">>>>),
       ScriptRec("Two", Undefined, <<Call("Lint") \o Call("One")>>),
       SingleRec("One", Undefined, <<"npm test">>),
       SingleRec("CallOne", Undefined, Call("One")),
       ScriptRec("Lint", Undefined, <<<<"npm run lint">>>>),
       ScriptRec("Empty", Undefined, <<<<LB, RUN, RB>>>>),
       ScriptRec("Glue", Undefined,
                 <<<<LB, LB, "PRODASH_PATH", RB, RUN, "Lint", RB>>>>),
       ScriptRec("Nested", Undefined,
                 <<<<LB, RUN, LB, "PROJECT_PATH", RB, RB>>>>),
       ScriptRec("Ps", "powershell", <<Call("Vars"), Call("Lint")>>),
       ScriptRec("Foos", Undefined,
                 <<<<"echo ", LB, "FOO", RB, " ", LB, "X", RB, LB, "FOO", RB>>,
                   <<LB, "A", "B", RB, LB, "PROJECT_PATH", RB>>>>),
       ScriptRec("Win", "batch",
                 <<<<"dir C:", BSL, "tmp">>,
                   <<"echo ", LB, "fOO", RB, LB, RB, " ", RB, LB>>>>),
       ScriptRec("Each", Undefined,
                 <<<<"[", LB, "PROJECT_PATH", RB, "]">>,
                   <<"[", LB, "PRODASH_PATH", RB, "]">>,
                   <<"[", LB, "GLOBALCONFIG_PATH", RB, "]">>,
                   <<"[", LB, "DESCRIPTION_FILE", RB, "]">>,
                   <<"[", LB, "LONGDESCRIPTION_FILE", RB, "]">>,
                   <<"[", LB, "FULLDESCRIPTION_FILE", RB, "]">>>>),
       ScriptRec("Busy", Undefined,
                 <<<<"echo ", LB, "PROJECT_PATH", RB, " ", LB, "FOO", RB, " ",
                     LB, RUN, "Lint", RB, " && ", LB, RUN, "One", RB,
                     " tail">>,
                   <<"echo ", LB, "PROJECT_PATH", RB>>>>)>>,
   project |-> proj, gcfg |-> DefaultGlobalPath]

\* two scripts of different terminals that call each other, a script that
\* calls an unknown script and then itself, a script that calls itself and
\* then an unknown script, an unknown script called from a nested script
\* before the caller calls itself
OrderConfig ==
  [scripts |->
     <<ScriptRec("Back", Undefined, <<<<"b1">>, Call("Forth")>>),
       ScriptRec("Forth", "batch", <<Call("Back"), <<"f2">>>>),
       ScriptRec("Lost", Undefined, <<Call("Nope"), Call("Lost")>>),
       ScriptRec("Self", Undefined, <<Call("Self"), Call("Nope")>>),
       ScriptRec("Deep", Undefined, <<Call("Inner"), Call("Deep")>>),
       ScriptRec("Inner", Undefined, <<<<"i1">>, Call("Nope")>>)>>,
   project |-> DefaultProject, gcfg |-> DefaultGlobalPath]

ScenarioConfigs ==
  {ReadmeConfig, TextConfig(DefaultProject), TextConfig(FreshProject),
   TextConfig(BareProject), OrderConfig}

----------------------------------------------------------------------------
(* Paths of projects and workspace folders *)

\* String.prototype.toLowerCase on an atom
ToLowerAtom(a) ==
  CASE a = "A" -> "a"
    [] a = "B" -> "b"
    [] a = "C" -> "c"
    [] a = "C:" -> "c:"
    [] OTHER -> a

\* normalizePath: path.toLowerCase().replace(/\\/g, '/')
NormalizePath(path) ==
  [k \in 1..Len(path) |-> IF path[k] = BSL THEN FSL ELSE ToLowerAtom(path[k])]

\* .replace(/\/+$/, '')
RECURSIVE StripTrailing(_)
StripTrailing(path) ==
  IF path # <<>> /\ path[Len(path)] = FSL
  THEN StripTrailing(SubSeq(path, 1, Len(path) - 1))
  ELSE path

\* String.prototype.startsWith
StartsWith(s, prefix) ==
  Len(prefix) <= Len(s) /\ SubSeq(s, 1, Len(prefix)) = prefix

\* the child only has to begin with the text of the parent
IsParentPathOfPrefix(parentPath, childPath) ==
  LET parent == StripTrailing(NormalizePath(parentPath))
      child == StripTrailing(NormalizePath(childPath))
  IN  StartsWith(child, parent)

\* isParentPathOf
IsParentPathOf(parentPath, childPath) ==
  LET parent == StripTrailing(NormalizePath(parentPath))
      child == StripTrailing(NormalizePath(childPath))
  IN  parent = child \/ StartsWith(child, Append(parent, FSL))

\* path.basename: the text after the last separator
RECURSIVE Basename(_)
Basename(path) ==
  IF path = <<>> \/ path[Len(path)] \in {FSL, BSL} THEN ""
  ELSE Basename(SubSeq(path, 1, Len(path) - 1)) \o path[Len(path)]

----------------------------------------------------------------------------
(* ProjectService.loadAndResolveProjects *)

Entry(name, path) == [name |-> name, path |-> path, group |-> Undefined]

\* the entries projects.jsonc may hold: /a/b, the same directory spelled
\* /A/B/, its parent /a, an entry with an underscore name, and /z
FileEntries ==
  {Entry("b", <<FSL, "a", FSL, "b">>),
   Entry("B", <<FSL, "A", FSL, "B", FSL>>),
   Entry("a", <<FSL, "a">>),
   Entry("_b", <<FSL, "a", FSL, "b">>),
   Entry("z", <<FSL, "z">>)}

\* the folders a window may have open: /a/b, /a/bc, /a, /a/b/x and \A\B
FolderPaths ==
  {<<FSL, "a", FSL, "b">>, <<FSL, "a", FSL, "b", "c">>, <<FSL, "a">>,
   <<FSL, "a", FSL, "b", FSL, "x">>, <<BSL, "A", BSL, "B">>}

\* the lists of at most n different elements of S
ListsOf(S, n) ==
  UNION {{f \in [1..l -> S] : \A j, k \in 1..l : j # k => f[j] # f[k]} :
           l \in 0..n}

ProjectFiles == ListsOf(FileEntries, MaxProjects)
FolderLists == ListsOf(FolderPaths, MaxFolders)

NoProject == [name |-> Undefined]
NoMessage == [what |-> "none"]

\* loadProjectsFromConfig: the entries whose name starts with "_" are left
\* out, and a missing group becomes 'Uncategorized'
LoadProjectsFromConfig(file) ==
  LET Kept(p) == ~StartsWithUnderscore(p.name)
      kept == SelectSeq(file, Kept)
  IN  [k \in 1..Len(kept) |->
         [kept[k] EXCEPT !.group = IF @ = Undefined THEN "Uncategorized"
                                   ELSE @]]

\* activeWorkspacePaths of a configured project
ActiveWorkspacePaths(p, folders) ==
  LET Under(wsPath) == IsParentPathOf(p.path, wsPath)
  IN  SelectSeq(folders, Under)

\* no workspace folder counts as covered
CoveredNone(configuredProjects, folders) == {}

\* coveredWorkspaceFolders when the first loop has ended
CoveredWorkspaceFolders(configuredProjects, folders) ==
  {folders[k] : k \in {j \in 1..Len(folders) :
     \E n \in 1..Len(configuredProjects) :
       IsParentPathOf(configuredProjects[n].path, folders[j])}}

\* the first loop: one resolved project for each configured project
RegisteredProjects(configuredProjects, folders) ==
  [k \in 1..Len(configuredProjects) |->
     [name |-> configuredProjects[k].name,
      path |-> configuredProjects[k].path,
      group |-> configuredProjects[k].group,
      description |-> "",
      isActive |-> ActiveWorkspacePaths(configuredProjects[k], folders) # <<>>]]

\* the second loop: a temporary project for each workspace folder that no
\* configured project covers
UnregisteredProjects(configuredProjects, folders) ==
  LET Open(wsPath) ==
        wsPath \notin CoveredWorkspaceFolders(configuredProjects, folders)
      open == SelectSeq(folders, Open)
  IN  [k \in 1..Len(open) |->
         [name |-> Basename(open[k]), path |-> open[k],
          group |-> "Uncategorized",
          description |-> "(Unregistered workspace)", isActive |-> TRUE]]

\* resolvedProjects
ResolvedProjects(file, folders) ==
  RegisteredProjects(LoadProjectsFromConfig(file), folders)
    \o UnregisteredProjects(LoadProjectsFromConfig(file), folders)

ActiveIndexes(list) == {k \in 1..Len(list) : list[k].isActive}

\* the project that is visited last becomes the current one
LastActive(list) ==
  IF ActiveIndexes(list) = {} THEN NoProject
  ELSE list[CHOOSE k \in ActiveIndexes(list) :
              \A j \in ActiveIndexes(list) : j <= k]

\* if (!this._currentProject) this._currentProject = ..., in both loops
FirstActive(list) ==
  IF ActiveIndexes(list) = {} THEN NoProject
  ELSE list[Min(ActiveIndexes(list))]

\* activeProjectCount > 1: showWarningMessage(`Multiple active ...`)
MessageFor(list) ==
  IF Cardinality(ActiveIndexes(list)) > 1
  THEN [what |-> "multipleActive", first |-> FirstActive(list).name]
  ELSE NoMessage

\* ScriptService.getScripts(projectPath): the model holds one script file
GetScripts(projectPath) == IF projectPath = project.path THEN scripts ELSE <<>>

\* scripts.filter(s => s.event === 'ON_ACTIVATE'), as indexes
ActivateScripts(projectPath) ==
  Sorted({r \in 1..Len(GetScripts(projectPath)) :
            GetScripts(projectPath)[r].event = "ON_ACTIVATE"})

\* initializeProjectFiles, for every active project in the order of the two
\* loops: the reduce builds one promise chain for the project if it has
\* ON_ACTIVATE scripts.  (The .prodash directory and the files it creates
\* are in the file system, of which the model holds the script file only.)
NewChains(list) ==
  LET Activating(p) == p.isActive /\ ActivateScripts(p.path) # <<>>
      act == SelectSeq(list, Activating)
  IN  [k \in 1..Len(act) |->
         [project |-> act[k].name, path |-> act[k].path,
          scripts |-> ActivateScripts(act[k].path),
          execs |-> <<>>, status |-> "running"]]

\* the state a load leaves that has read the entries file and the folders
Loaded(file, folders) ==
  /\ projectsFile = file
  /\ workspaceFolders = folders
  /\ projects = ResolvedProjects(file, folders)
  /\ currentProject = FirstActive(ResolvedProjects(file, folders))
  /\ shown = MessageFor(ResolvedProjects(file, folders))
  /\ chains = NewChains(ResolvedProjects(file, folders))
  /\ alog = <<>>

----------------------------------------------------------------------------
(* The files FileWatcherService watches *)

\* path.join(dir, proDashFolderName)
ProDashFolder(dir) == dir \o <<FSL, ".prodash">>

\* startDir and the directories path.dirname gives from it, one after the
\* other (the root left out)
Ancestors(startDir) ==
  {SubSeq(startDir, 1, k) :
     k \in {j \in 1..Len(startDir) :
              j = Len(startDir) \/ startDir[j + 1] = FSL}}

\* findUpDirectoryWithName(startDir, '.prodash') where the directories dirs
\* hold a .prodash directory: the nearest one, or undefined
FindUpDirectoryWithName(startDir, dirs) ==
  LET found == Ancestors(startDir) \cap dirs
  IN  IF found = {} THEN NoPath
      ELSE ProDashFolder(CHOOSE d \in found :
                           \A o \in found : Len(o) <= Len(d))

\* the two loops of loadAndResolveProjects from the k-th resolved project
\* on: proDashPath is looked up for every project, and initializeProjectFiles
\* creates the directory for an active project that has none
RECURSIVE ResolveDashFrom(_, _, _, _)
ResolveDashFrom(list, k, dirs, paths) ==
  IF k > Len(list) THEN [dirs |-> dirs, paths |-> paths]
  ELSE LET up == FindUpDirectoryWithName(list[k].path, dirs)
       IN  IF up = NoPath /\ list[k].isActive
           THEN ResolveDashFrom(list, k + 1, dirs \cup {list[k].path},
                                Append(paths, ProDashFolder(list[k].path)))
           ELSE ResolveDashFrom(list, k + 1, dirs, Append(paths, up))

ResolveDash(list, dirs) == ResolveDashFrom(list, 1, dirs, <<>>)

GlobalProjectsFile == [dir |-> DefaultGlobalPath, name |-> "projects.jsonc"]

ScriptsFile(proDashPath) == [dir |-> proDashPath, name |-> "scripts.jsonc"]

\* the four files of a dashboard directory initWatchers watches
DashboardFiles(proDashPath) ==
  <<ScriptsFile(proDashPath),
    [dir |-> proDashPath, name |-> "d.$$$"],
    [dir |-> proDashPath, name |-> "ld.$$$"],
    [dir |-> proDashPath, name |-> "fd.$$$"]>>

RECURSIVE WatchedFrom(_, _)
WatchedFrom(paths, k) ==
  IF k > Len(paths) THEN <<>>
  ELSE (IF paths[k] = NoPath THEN <<>> ELSE DashboardFiles(paths[k]))
         \o WatchedFrom(paths, k + 1)

\* the files initWatchers creates a watcher for, in the order of creation
WatchedFiles(paths) == <<GlobalProjectsFile>> \o WatchedFrom(paths, 1)

\* the projects of the watcher scenarios: /a/b, /z, and /a/b/x inside /a/b
WatchHome == <<FSL, "a", FSL, "b">>
WatchFar == <<FSL, "z">>
WatchInner == <<FSL, "a", FSL, "b", FSL, "x">>

\* the files whose content the model follows: projects.jsonc and the
\* scripts file of /a/b; every other watched file never exists
TrackedFiles == {GlobalProjectsFile, ScriptsFile(ProDashFolder(WatchHome))}

Absent == "<absent>"

\* what a tracked file may hold
ContentsOf(f) ==
  IF f = GlobalProjectsFile THEN {"", "[z,b]", "[x,b]"}
  ELSE {"sample", "s2"}

\* loadProjectsFromConfig on the content of projects.jsonc
ParseProjects(content) ==
  CASE content = "[z,b]" -> <<Entry("z", WatchFar), Entry("b", WatchHome)>>
    [] content = "[x,b]" -> <<Entry("x", WatchInner), Entry("b", WatchHome)>>
    [] OTHER -> <<>>

Exists(d, f) == f \in TrackedFiles /\ d[f] # Absent

\* fs.existsSync(filePath) ? fs.readFileSync(filePath, 'utf8') : ''
ReadFile(d, f) == IF Exists(d, f) THEN d[f] ELSE ""

\* the files that cannot be read when the cache is primed: none or all
Unreadable == {{}, TrackedFiles}

\* primeContentCache for every file of files; the files of bad cannot be
\* read, and a file that does not exist leaves its entry as it is
PrimeContentCache(cache, files, d, bad) ==
  [f \in TrackedFiles |->
     IF (\E k \in 1..Len(files) : files[k] = f) /\ Exists(d, f) /\ f \notin bad
     THEN d[f] ELSE cache[f]]

\* the file system when a load has created the .prodash directories of the
\* directories made: each gets its sample scripts file
DiskAfter(d, made) ==
  [f \in TrackedFiles |->
     IF d[f] = Absent /\ \E m \in made : f = ScriptsFile(ProDashFolder(m))
     THEN "sample" ELSE d[f]]

NoEntries == <<>>

\* the file system and the file watchers are not followed
Unwatched ==
  /\ dashDirs = {}
  /\ dashOf = <<>>
  /\ disk = [f \in TrackedFiles |-> Absent]
  /\ lastFileContents = [f \in TrackedFiles |-> Undefined]
  /\ watchers = <<>>
  /\ created = <<>>
  /\ pending = {}
  /\ refreshes = 0
  /\ wlog = NoEntries

----------------------------------------------------------------------------
(* ScriptExecutionService.execute and resolveScript *)

loadVars == <<projectsFile, workspaceFolders, projects, currentProject, shown>>

chainVars == <<chains, alog>>

watchVars == <<dashDirs, dashOf, disk, lastFileContents, watchers, created,
               pending, refreshes, wlog>>

sinkVars == <<terminals, runTerm, hasSI, idx, listeners, timers, inflight,
              ended, warnedAboutFallback>>

\* what runInTerminal and the terminal events leave alone
resolveVars == <<scripts, project, gcfg, root, frames, thrownAt, loadVars,
                 chainVars, watchVars>>

\* what resolveScript leaves alone
termVars == <<sinkVars, loadVars, chainVars, watchVars>>

vars == <<scripts, project, gcfg, phase, root, cur, frames, allCommands,
          error, thrownAt, log, terminals, runTerm, hasSI, idx, listeners,
          timers, inflight, ended, warnedAboutFallback, projectsFile,
          workspaceFolders, projects, currentProject, shown, chains, alog,
          dashDirs, dashOf, disk, lastFileContents, watchers, created,
          pending, refreshes, wlog>>

NoScript == [name |-> Undefined]
NoCommands == <<<<Undefined>>>>

\* the state of the execution engine when the extension has been activated:
\* the script files as they are, and the terminals the window holds
InitEngine(configs, windows) ==
  /\ \E c \in configs :
       /\ scripts = c.scripts
       /\ project = c.project
       /\ gcfg = c.gcfg
  /\ phase = [e \in Execs |-> "Idle"]
  /\ root = [e \in Execs |-> NoScript]
  /\ cur = 0
  /\ frames = <<>>
  /\ allCommands = [e \in Execs |-> NoCommands]
  /\ error = [e \in Execs |-> NoError]
  /\ thrownAt = [e \in Execs |-> <<>>]
  /\ log = [e \in Execs |-> <<>>]
  /\ terminals \in windows
  /\ runTerm = [e \in Execs |-> 0]
  /\ hasSI = [e \in Execs |-> FALSE]
  /\ idx = [e \in Execs |-> 0]
  /\ listeners = {}
  /\ timers = {}
  /\ inflight = {}
  /\ ended = [e \in Execs |-> <<>>]
  /\ warnedAboutFallback = FALSE

\* the folders of the window: the folder of the project, unless the project
\* was resolved without .prodash directory and has not been initialized
HomeFolders(proj) == IF proj.proDashPath = NoPath THEN <<>> ELSE <<proj.path>>

\* the engine as above, and the project list as the constructor of
\* ProjectService has loaded it: the project of the scripts is configured
InitFrom(configs, windows) ==
  /\ InitEngine(configs, windows)
  /\ Loaded(<<Entry(project.name, project.path)>>, HomeFolders(project))
  /\ Unwatched

\* a window without terminals
InitWith(configs) == InitFrom(configs, {<<>>})

Top == frames[Len(frames)]

Frame(script, seenScripts) ==
  [script |-> script, seen |-> seenScripts, i |-> 1, resolved |-> <<>>,
   pc |-> "enter"]

\* no resolveScript recursion and no resumed continuation is pending: the
\* host is free to dispatch the next event
Quiescent == cur = 0 /\ \A e \in Execs : phase[e] # "Resumed"

\* the failure written at the info level
FailureEntryInfo(script, err) ==
  [level |-> "info", what |-> "failed", script |-> script.name,
   message |-> err]

\* the catch of execute: logError(`Failed to execute script ...`)
FailureEntry(script, err) ==
  [level |-> "error", what |-> "failed", script |-> script.name,
   message |-> err]

\* execute, up to the call of resolveScript(scriptToRun, project, []);
\* executions are numbered in the order they are started
Execute(e, r) ==
  /\ Quiescent
  /\ phase[e] = "Idle"
  /\ \A d \in 1..(e - 1) : phase[d] # "Idle"
  /\ root' = [root EXCEPT ![e] = scripts[r]]
  /\ phase' = [phase EXCEPT ![e] = "Expanding"]
  /\ cur' = e
  /\ frames' = <<Frame(scripts[r], <<>>)>>
  /\ log' = [log EXCEPT ![e] = Append(@, [level |-> "info",
                                           what |-> "executing",
                                           script |-> scripts[r].name])]
  /\ UNCHANGED <<scripts, project, gcfg, allCommands, error, thrownAt>>
  /\ UNCHANGED <<sinkVars, loadVars, watchVars>>

\* the error is swallowed and what was resolved so far goes to the terminal
ThrowPartial(e, err) ==
  /\ phase' = [phase EXCEPT ![e] = "Expanded"]
  /\ error' = [error EXCEPT ![e] = err]
  /\ allCommands' = [allCommands EXCEPT ![e] = Top.resolved]
  /\ frames' = <<>>
  /\ UNCHANGED <<scripts, project, gcfg, root, cur, thrownAt, log>>
  /\ UNCHANGED termVars

\* a throw inside resolveScript unwinds every activation and reaches the
\* catch of execute: logError, showErrorMessage, re-throw
Throw(e, err) ==
  /\ phase' = [phase EXCEPT ![e] = "ExpansionFailed"]
  /\ error' = [error EXCEPT ![e] = err]
  /\ thrownAt' = [thrownAt EXCEPT ![e] = Top.seen]
  /\ frames' = <<>>
  /\ cur' = 0
  /\ log' = [log EXCEPT ![e] = Append(@, FailureEntry(root[e], err))]
  /\ UNCHANGED <<scripts, project, gcfg, root, allCommands>>
  /\ UNCHANGED termVars

\* the repeated call is dropped and the caller goes on with its next line
EnterCycleSkip(e) ==
  /\ cur = e
  /\ phase[e] = "Expanding"
  /\ Top.pc = "enter"
  /\ Includes(Top.seen, Top.script.name)
  /\ Len(frames) > 1
  /\ frames' = [SubSeq(frames, 1, Len(frames) - 1)
                  EXCEPT ![Len(frames) - 1].i = @ + 1]
  /\ UNCHANGED <<scripts, project, gcfg, phase, root, cur, allCommands,
                 error, thrownAt, log>>
  /\ UNCHANGED termVars

\* resolveScript lines 94-96: the name is already in seenScripts
EnterCycle(e) ==
  /\ cur = e
  /\ phase[e] = "Expanding"
  /\ Top.pc = "enter"
  /\ Includes(Top.seen, Top.script.name)
  /\ Throw(e, RecursionError(Top.script))

\* resolveScript line 97: seenScripts.push(script.name)
EnterPush(e) ==
  /\ cur = e
  /\ phase[e] = "Expanding"
  /\ Top.pc = "enter"
  /\ ~Includes(Top.seen, Top.script.name)
  /\ frames' = [frames EXCEPT ![Len(frames)] =
                  [@ EXCEPT !.seen = Append(@, Top.script.name),
                            !.pc = "loop"]]
  /\ UNCHANGED <<scripts, project, gcfg, phase, root, cur, allCommands,
                 error, thrownAt, log>>
  /\ UNCHANGED termVars

AtLine(e) ==
  /\ cur = e
  /\ phase[e] = "Expanding"
  /\ Top.pc = "loop"
  /\ Top.i <= Len(Commands(Top.script))

CurLine == Commands(Top.script)[Top.i]

\* the else branch: resolvedCommands.push(resolveVariables(command, project))
StepCommand(e) ==
  /\ AtLine(e)
  /\ ~IsDirective(CurLine)
  /\ frames' = [frames EXCEPT ![Len(frames)] =
                  [@ EXCEPT !.resolved =
                              Append(@, ResolveVariables(CurLine, project, gcfg)),
                            !.i = @ + 1]]
  /\ log' = [log EXCEPT ![e] = @ \o ResolveWarnings(CurLine)]
  /\ UNCHANGED <<scripts, project, gcfg, phase, root, cur, allCommands,
                 error, thrownAt>>
  /\ UNCHANGED termVars

\* the missing target is logged and the loop goes on with the next line
StepNotFoundSkip(e) ==
  /\ AtLine(e)
  /\ IsDirective(CurLine)
  /\ FindIdx(scripts, RunScriptName(CurLine)) = 0
  /\ frames' = [frames EXCEPT ![Len(frames)].i = @ + 1]
  /\ log' = [log EXCEPT ![e] = Append(@, [level |-> "error",
                                           what |-> "notFound",
                                           script |-> RunScriptName(CurLine)])]
  /\ UNCHANGED <<scripts, project, gcfg, phase, root, cur, allCommands,
                 error, thrownAt>>
  /\ UNCHANGED termVars

\* a directive whose target getScripts does not return
StepNotFound(e) ==
  /\ AtLine(e)
  /\ IsDirective(CurLine)
  /\ FindIdx(scripts, RunScriptName(CurLine)) = 0
  /\ Throw(e, NotFoundError(RunScriptName(CurLine), project))

\* a target of another terminal that calls a script being expanded is
\* reported as a cycle
StepMismatchCycleFirst(e) ==
  /\ AtLine(e)
  /\ IsDirective(CurLine)
  /\ LET n == FindIdx(scripts, RunScriptName(CurLine))
     IN  /\ n # 0
         /\ EffTerminal(Top.script) # EffTerminal(scripts[n])
         /\ IF \E k \in 1..Len(Commands(scripts[n])) :
                  /\ IsDirective(Commands(scripts[n])[k])
                  /\ Includes(Top.seen,
                              RunScriptName(Commands(scripts[n])[k]))
            THEN Throw(e, RecursionError(Top.script))
            ELSE Throw(e, MismatchError(Top.script, scripts[n]))

\* a directive whose target has another terminal
StepMismatch(e) ==
  /\ AtLine(e)
  /\ IsDirective(CurLine)
  /\ LET n == FindIdx(scripts, RunScriptName(CurLine))
     IN  /\ n # 0
         /\ EffTerminal(Top.script) # EffTerminal(scripts[n])
         /\ Throw(e, MismatchError(Top.script, scripts[n]))

\* the nested call is made whatever the terminal of the target is
StepCallAnyTerminal(e) ==
  /\ AtLine(e)
  /\ IsDirective(CurLine)
  /\ LET n == FindIdx(scripts, RunScriptName(CurLine))
     IN  /\ n # 0
         /\ frames' = Append(frames, Frame(scripts[n], Top.seen))
  /\ UNCHANGED <<scripts, project, gcfg, phase, root, cur, allCommands,
                 error, thrownAt, log>>
  /\ UNCHANGED termVars

\* the nested call resolveScript(nextScript, project, [...seenScripts])
StepCall(e) ==
  /\ AtLine(e)
  /\ IsDirective(CurLine)
  /\ LET n == FindIdx(scripts, RunScriptName(CurLine))
     IN  /\ n # 0
         /\ EffTerminal(Top.script) = EffTerminal(scripts[n])
         /\ frames' = Append(frames, Frame(scripts[n], Top.seen))
  /\ UNCHANGED <<scripts, project, gcfg, phase, root, cur, allCommands,
                 error, thrownAt, log>>
  /\ UNCHANGED termVars

AtEnd(e) ==
  /\ cur = e
  /\ phase[e] = "Expanding"
  /\ Top.pc = "loop"
  /\ Top.i > Len(Commands(Top.script))

\* the nested commands are also written into the script of the caller, in
\* place of the directive
ReturnNestedInPlace(e) ==
  /\ AtEnd(e)
  /\ Len(frames) > 1
  /\ LET caller == frames[Len(frames) - 1]
     IN  /\ frames' = [SubSeq(frames, 1, Len(frames) - 1)
                         EXCEPT ![Len(frames) - 1] =
                           [caller EXCEPT
                              !.resolved = Splice(@, Top.resolved),
                              !.seen = SeenAfterCall(@, Top.seen),
                              !.i = @ + 1]]
         /\ scripts' = [scripts EXCEPT
                          ![FindIdx(scripts, caller.script.name)].script =
                            SubSeq(@, 1, caller.i - 1) \o Top.resolved
                              \o SubSeq(@, caller.i + 1, Len(@))]
  /\ UNCHANGED <<project, gcfg, phase, root, cur, allCommands, error,
                 thrownAt, log>>
  /\ UNCHANGED termVars

\* a nested call returns: resolvedCommands.push(...nestedCommands)
ReturnNested(e) ==
  /\ AtEnd(e)
  /\ Len(frames) > 1
  /\ LET caller == frames[Len(frames) - 1]
     IN  frames' = [SubSeq(frames, 1, Len(frames) - 1)
                      EXCEPT ![Len(frames) - 1] =
                        [caller EXCEPT
                           !.resolved = Splice(@, Top.resolved),
                           !.seen = SeenAfterCall(@, Top.seen),
                           !.i = @ + 1]]
  /\ UNCHANGED <<scripts, project, gcfg, phase, root, cur, allCommands,
                 error, thrownAt, log>>
  /\ UNCHANGED termVars

\* the outermost call returns to execute: allCommands is known, and execute
\* goes on to runInTerminal without giving up control
ReturnRoot(e) ==
  /\ AtEnd(e)
  /\ Len(frames) = 1
  /\ allCommands' = [allCommands EXCEPT ![e] = Top.resolved]
  /\ phase' = [phase EXCEPT ![e] = "Expanded"]
  /\ frames' = <<>>
  /\ UNCHANGED <<scripts, project, gcfg, root, cur, error, thrownAt, log>>
  /\ UNCHANGED termVars

Resolve(e) ==
  \/ EnterCycle(e)
  \/ EnterPush(e)
  \/ StepCommand(e)
  \/ StepNotFound(e)
  \/ StepMismatch(e)
  \/ StepCall(e)
  \/ ReturnNested(e)
  \/ ReturnRoot(e)

----------------------------------------------------------------------------
(* TerminalService.runInTerminal *)

\* getTerminal: the name the terminal is looked up and created by
TerminalName(terminalType) ==
  IF terminalType = "powershell"
  THEN "ProDash Runner (PowerShell)" ELSE "ProDash Runner"

\* the terminal is looked up by its name alone
FindTerminalAny(terms, terminalType) ==
  LET hits == {t \in 1..Len(terms) :
                 terms[t].name = TerminalName(terminalType)}
  IN  IF hits = {} THEN 0 ELSE Min(hits)

\* vscode.window.terminals.find(t => t.name === terminalName && !t.exitStatus)
FindTerminal(terms, terminalType) ==
  LET hits == {t \in 1..Len(terms) :
                 /\ terms[t].name = TerminalName(terminalType)
                 /\ ~terms[t].exited}
  IN  IF hits = {} THEN 0 ELSE Min(hits)

\* vscode.window.createTerminal(options): no shell integration yet
NewTerminal(terminalType) ==
  [name |-> TerminalName(terminalType), exited |-> FALSE, si |-> FALSE,
   got |-> <<>>]

\* window.terminals once getTerminal has returned
TerminalsAfterGet(terms, terminalType) ==
  IF FindTerminal(terms, terminalType) = 0
  THEN Append(terms, NewTerminal(terminalType))
  ELSE terms

\* the terminal getTerminal returns
GetTerminal(terms, terminalType) ==
  FindTerminal(TerminalsAfterGet(terms, terminalType), terminalType)

\* the fire-and-forget branch is always taken
UseIntegrationNever(hasShellIntegration, shellIntegration) == FALSE

\* line 161: hasShellIntegration && terminal.shellIntegration
UseIntegration(hasShellIntegration, shellIntegration) ==
  hasShellIntegration /\ shellIntegration

\* only a positive exit code counts as a failure
IsSuccessUnlessPositive(exitCode) == exitCode <= 0

\* line 169: e.exitCode === 0
IsSuccess(exitCode) == exitCode = 0

\* the error without the text of the command
CommandErrorBare(line, exitCode) ==
  [kind |-> "command", line |-> <<>>,
   code |-> IF exitCode < 0 THEN "undefined" ELSE ToString(exitCode)]

\* line 172: new Error(`Command "${line}" exited with code ${e.exitCode ??
\* 'undefined'}.`)
CommandError(line, exitCode) ==
  [kind |-> "command", line |-> line,
   code |-> IF exitCode < 0 THEN "undefined" ELSE ToString(exitCode)]

\* lines 179-180: the warning of the fire-and-forget branch
FallbackWarning(terminal) ==
  [level |-> "warning", what |-> "noShellIntegration",
   terminal |-> terminal.name]

\* the warning is logged every time
LogFallbackAlways(entries, warned, terminal) ==
  Append(entries, FallbackWarning(terminal))

\* lines 178-183: if (!this.warnedAboutFallback) logWarning(msg)
LogFallback(entries, warned, terminal) ==
  IF warned THEN entries ELSE Append(entries, FallbackWarning(terminal))

EndListener(e, k) == [on |-> "end", exec |-> e, k |-> k]
ReadyListener(e, t) == [on |-> "ready", exec |-> e, term |-> t]

Given(e, k, api) ==
  [exec |-> e, k |-> k, line |-> allCommands[e][k], api |-> api]

\* the lines k..n of execution e, handed to sendText last line first
SendAllReversed(e, k) ==
  [j \in 1..(Len(allCommands[e]) - k + 1) |->
     Given(e, Len(allCommands[e]) - j + 1, "sendText")]

\* the lines k..n of execution e, handed to sendText one after the other
SendAll(e, k) ==
  [j \in 1..(Len(allCommands[e]) - k + 1) |-> Given(e, k + j - 1, "sendText")]

\* the loop of runInTerminal, with a wait that registers no listener
LoopFromUnlistened(e, k, t, hsi, terms, lsn, inf) ==
  /\ hasSI' = [hasSI EXCEPT ![e] = hsi]
  /\ runTerm' = [runTerm EXCEPT ![e] = t]
  /\ cur' = 0
  /\ IF k > Len(allCommands[e])
     THEN /\ phase' = [phase EXCEPT ![e] = "Completed"]
          /\ idx' = [idx EXCEPT ![e] = k]
          /\ terminals' = terms
          /\ listeners' = lsn
          /\ inflight' = inf
          /\ UNCHANGED <<log, warnedAboutFallback>>
     ELSE IF UseIntegration(hsi, terms[t].si)
     THEN \* executeCommand(line), then wait for its end event
          /\ phase' = [phase EXCEPT ![e] = "AwaitCommand"]
          /\ idx' = [idx EXCEPT ![e] = k]
          /\ terminals' = [terms EXCEPT ![t].got =
                             Append(@, Given(e, k, "executeCommand"))]
          /\ listeners' = lsn
          /\ inflight' = inf \cup {<<e, k>>}
          /\ UNCHANGED <<log, warnedAboutFallback>>
     ELSE \* no await in this branch: every remaining line is sent at once
          /\ phase' = [phase EXCEPT ![e] = "Completed"]
          /\ idx' = [idx EXCEPT ![e] = Len(allCommands[e]) + 1]
          /\ terminals' = [terms EXCEPT ![t].got = @ \o SendAll(e, k)]
          /\ listeners' = lsn
          /\ inflight' = inf
          /\ warnedAboutFallback' = TRUE
          /\ log' = [log EXCEPT ![e] =
                       LogFallback(@, warnedAboutFallback, terms[t])]
  /\ UNCHANGED <<allCommands, error>>
  /\ UNCHANGED resolveVars

\* the for loop of runInTerminal from line k on, up to its next suspension:
\* terms, lsn and inf are the terminals, listeners and shell executions the
\* step that resumes the loop leaves behind
LoopFrom(e, k, t, hsi, terms, lsn, inf) ==
  /\ hasSI' = [hasSI EXCEPT ![e] = hsi]
  /\ runTerm' = [runTerm EXCEPT ![e] = t]
  /\ cur' = 0
  /\ IF k > Len(allCommands[e])
     THEN /\ phase' = [phase EXCEPT ![e] = "Completed"]
          /\ idx' = [idx EXCEPT ![e] = k]
          /\ terminals' = terms
          /\ listeners' = lsn
          /\ inflight' = inf
          /\ UNCHANGED <<log, warnedAboutFallback>>
     ELSE IF UseIntegration(hsi, terms[t].si)
     THEN \* executeCommand(line), then wait for its end event
          /\ phase' = [phase EXCEPT ![e] = "AwaitCommand"]
          /\ idx' = [idx EXCEPT ![e] = k]
          /\ terminals' = [terms EXCEPT ![t].got =
                             Append(@, Given(e, k, "executeCommand"))]
          /\ listeners' = lsn \cup {EndListener(e, k)}
          /\ inflight' = inf \cup {<<e, k>>}
          /\ UNCHANGED <<log, warnedAboutFallback>>
     ELSE \* no await in this branch: every remaining line is sent at once
          /\ phase' = [phase EXCEPT ![e] = "Completed"]
          /\ idx' = [idx EXCEPT ![e] = Len(allCommands[e]) + 1]
          /\ terminals' = [terms EXCEPT ![t].got = @ \o SendAll(e, k)]
          /\ listeners' = lsn
          /\ inflight' = inf
          /\ warnedAboutFallback' = TRUE
          /\ log' = [log EXCEPT ![e] =
                       LogFallback(@, warnedAboutFallback, terms[t])]
  /\ UNCHANGED <<allCommands, error>>
  /\ UNCHANGED resolveVars

\* runInTerminal waits until no other execution has a command running
RunStartReadyLocked(e) ==
  /\ cur = e
  /\ phase[e] = "Expanded"
  /\ \A d \in Execs : phase[d] # "AwaitCommand"
  /\ LET terms == TerminalsAfterGet(terminals, root[e].terminal)
         t == GetTerminal(terminals, root[e].terminal)
     IN  /\ terms[t].si
         /\ LoopFrom(e, 1, t, TRUE, terms, listeners, inflight)
  /\ UNCHANGED <<ended, timers>>

\* runInTerminal: getTerminal, and the terminal already has shell integration
RunStartReady(e) ==
  /\ cur = e
  /\ phase[e] = "Expanded"
  /\ LET terms == TerminalsAfterGet(terminals, root[e].terminal)
         t == GetTerminal(terminals, root[e].terminal)
     IN  /\ terms[t].si
         /\ LoopFrom(e, 1, t, TRUE, terms, listeners, inflight)
  /\ UNCHANGED <<ended, timers>>

\* runInTerminal: getTerminal, then waitForShellIntegration registers its
\* listener and its timer
RunStartWait(e) ==
  /\ cur = e
  /\ phase[e] = "Expanded"
  /\ LET terms == TerminalsAfterGet(terminals, root[e].terminal)
         t == GetTerminal(terminals, root[e].terminal)
     IN  /\ ~terms[t].si
         /\ terminals' = terms
         /\ runTerm' = [runTerm EXCEPT ![e] = t]
         /\ listeners' = listeners \cup {ReadyListener(e, t)}
  /\ timers' = timers \cup {e}
  /\ phase' = [phase EXCEPT ![e] = "WaitIntegration"]
  /\ cur' = 0
  /\ UNCHANGED <<allCommands, error, log, hasSI, idx, inflight, ended,
                 warnedAboutFallback>>
  /\ UNCHANGED resolveVars

\* the shell of terminal t activates its integration;
\* onDidChangeTerminalShellIntegration fires: every listener waiting for t
\* disposes itself and resolves its promise with true
IntegrationReady(t) ==
  /\ Quiescent
  /\ t \in 1..Len(terminals)
  /\ ~terminals[t].si
  /\ ~terminals[t].exited
  /\ terminals' = [terminals EXCEPT ![t].si = TRUE]
  /\ LET woken == {e \in Execs : ReadyListener(e, t) \in listeners}
     IN  /\ listeners' = listeners \ {ReadyListener(e, t) : e \in woken}
         /\ phase' = [e \in Execs |->
                        IF e \in woken THEN "Resumed" ELSE phase[e]]
         /\ hasSI' = [e \in Execs |-> IF e \in woken THEN TRUE ELSE hasSI[e]]
         \* their timers fire later, when dispose and resolve do nothing
         /\ timers' = timers \ woken
  /\ UNCHANGED <<cur, allCommands, error, log, runTerm, idx, inflight,
                 ended, warnedAboutFallback>>
  /\ UNCHANGED resolveVars

\* runInTerminal goes on after the wait that the ready event has ended
Resume(e) ==
  /\ cur = 0
  /\ phase[e] = "Resumed"
  /\ LoopFrom(e, 1, runTerm[e], hasSI[e], terminals, listeners, inflight)
  /\ UNCHANGED <<ended, timers>>

\* no timer is set
TimerNever(e) == FALSE /\ UNCHANGED vars

\* the 3000 ms timer fires while the wait is still open: dispose the
\* listener, resolve(!!terminal.shellIntegration), and the loop starts
TimerLapses(e) ==
  /\ Quiescent
  /\ e \in timers
  /\ phase[e] = "WaitIntegration"
  /\ timers' = timers \ {e}
  /\ LoopFrom(e, 1, runTerm[e], terminals[runTerm[e]].si, terminals,
              listeners \ {ReadyListener(e, runTerm[e])}, inflight)
  /\ UNCHANGED ended

\* e.exitCode undefined: the shell reported no exit code (e.g. Ctrl+C)
NoExitCode == 0 - 1

ExitCodes == {0, 1, NoExitCode}

\* the listener of execution e takes the end event of any running command
\* for its own
CommandSucceedsAny(e, exitCode) ==
  /\ Quiescent
  /\ phase[e] = "AwaitCommand"
  /\ EndListener(e, idx[e]) \in listeners
  /\ IsSuccess(exitCode)
  /\ \E h \in inflight :
       /\ ended' = [ended EXCEPT ![h[1]] = Append(@, exitCode)]
       /\ LoopFrom(e, idx[e] + 1, runTerm[e], hasSI[e], terminals,
                   listeners \ {EndListener(e, idx[e])}, inflight \ {h})
  /\ UNCHANGED timers

\* onDidEndTerminalShellExecution for the command execution e waits for,
\* with exit code 0: the listener disposes itself and resolves, and the loop
\* goes on with the next line
CommandSucceeds(e, exitCode) ==
  /\ Quiescent
  /\ phase[e] = "AwaitCommand"
  /\ <<e, idx[e]>> \in inflight
  /\ EndListener(e, idx[e]) \in listeners
  /\ IsSuccess(exitCode)
  /\ ended' = [ended EXCEPT ![e] = Append(@, exitCode)]
  /\ LoopFrom(e, idx[e] + 1, runTerm[e], hasSI[e], terminals,
              listeners \ {EndListener(e, idx[e])},
              inflight \ {<<e, idx[e]>>})
  /\ UNCHANGED timers

\* the listener disposes itself but settles nothing
CommandFailsIgnored(e, exitCode) ==
  /\ Quiescent
  /\ phase[e] = "AwaitCommand"
  /\ <<e, idx[e]>> \in inflight
  /\ EndListener(e, idx[e]) \in listeners
  /\ ~IsSuccess(exitCode)
  /\ ended' = [ended EXCEPT ![e] = Append(@, exitCode)]
  /\ listeners' = listeners \ {EndListener(e, idx[e])}
  /\ inflight' = inflight \ {<<e, idx[e]>>}
  /\ UNCHANGED <<phase, error, log, cur, allCommands, terminals, runTerm,
                 hasSI, idx, timers, warnedAboutFallback>>
  /\ UNCHANGED resolveVars

\* the end event with any other exit code: the listener disposes itself and
\* rejects; runInTerminal throws and the catch of execute logs and re-throws
CommandFails(e, exitCode) ==
  /\ Quiescent
  /\ phase[e] = "AwaitCommand"
  /\ <<e, idx[e]>> \in inflight
  /\ EndListener(e, idx[e]) \in listeners
  /\ ~IsSuccess(exitCode)
  /\ ended' = [ended EXCEPT ![e] = Append(@, exitCode)]
  /\ listeners' = listeners \ {EndListener(e, idx[e])}
  /\ inflight' = inflight \ {<<e, idx[e]>>}
  /\ phase' = [phase EXCEPT ![e] = "ExecutionFailed"]
  /\ error' = [error EXCEPT ![e] =
                 CommandError(allCommands[e][idx[e]], exitCode)]
  /\ log' = [log EXCEPT ![e] =
               Append(@, FailureEntry(root[e],
                           CommandError(allCommands[e][idx[e]], exitCode)))]
  /\ UNCHANGED <<cur, allCommands, terminals, runTerm, hasSI, idx, timers,
                 warnedAboutFallback>>
  /\ UNCHANGED resolveVars

\* the shell of terminal t exits or the user closes the terminal: exitStatus
\* is set, and getTerminal no longer finds it (line 193); an end event of a
\* command that was running in it may still arrive
TerminalCloses(t) ==
  /\ Quiescent
  /\ t \in 1..Len(terminals)
  /\ ~terminals[t].exited
  /\ terminals' = [terminals EXCEPT ![t].exited = TRUE]
  /\ UNCHANGED <<phase, cur, allCommands, error, log, runTerm, hasSI, idx,
                 listeners, timers, inflight, ended, warnedAboutFallback>>
  /\ UNCHANGED resolveVars

----------------------------------------------------------------------------
(* One expansion of any root script of any script set *)

InitExpand == InitWith(GenConfigs \cup ScenarioConfigs)

ExecuteAny ==
  /\ \E r \in 1..Len(scripts) : Execute(1, r)
  /\ UNCHANGED chainVars

NextExpand ==
  \/ ExecuteAny
  \/ EnterCycle(1)
  \/ EnterPush(1)
  \/ StepCommand(1)
  \/ StepNotFound(1)
  \/ StepMismatch(1)
  \/ StepCall(1)
  \/ ReturnNested(1)
  \/ ReturnRoot(1)

SpecExpand == InitExpand /\ [][NextExpand]_vars

----------------------------------------------------------------------------
(* Executions started by the user, running against the terminals *)

\* a script set for running: three commands, a repeated command, a
\* powershell script that calls a hidden single-string script, a cycle
\* through a script with an underscore name, a call across terminals, a
\* call of a script that is not there
RunConfig ==
  [scripts |->
     <<ScriptRec("Three", Undefined, <<<<"c1">>, <<"c2">>, <<"c3">>>>),
       ScriptRec("Twice", "batch", <<<<"c">>, <<"c">>>>),
       ScriptRec("Ps", "powershell", <<<<"p1">>, Call("Ps2")>>),
       HiddenRec("Ps2", "powershell", <<"p2">>),
       ScriptRec("Loop", Undefined, <<<<"l1">>, Call("_Loop"), <<"l3">>>>),
       SingleRec("_Loop", Undefined, Call("Loop")),
       ScriptRec("Mixed", Undefined, <<Call("Ps2")>>),
       ScriptRec("Gone", "batch", <<<<"g1">>, Call("Nope")>>)>>,
   project |-> DefaultProject, gcfg |-> DefaultGlobalPath]

Init == InitWith({RunConfig})

\* the prodash.runScript command, for a script item of the tree
ExecuteScript ==
  /\ \E e \in Execs, r \in 1..Len(scripts) :
       Visible(scripts[r]) /\ Execute(e, r)
  /\ UNCHANGED chainVars
ResolveStep == \E e \in Execs : Resolve(e)
RunStart == \E e \in Execs : RunStartReady(e) \/ RunStartWait(e)
ShellReady == \E t \in 1..Len(terminals) : IntegrationReady(t)
ResumeRun == \E e \in Execs : Resume(e)
Timer == \E e \in Execs : TimerLapses(e)
CommandEnd ==
  \E e \in Execs, c \in ExitCodes : CommandSucceeds(e, c) \/ CommandFails(e, c)
TerminalExit == \E t \in 1..Len(terminals) : TerminalCloses(t)

Next ==
  \/ ExecuteScript
  \/ ResolveStep
  \/ RunStart
  \/ ShellReady
  \/ ResumeRun
  \/ Timer
  \/ CommandEnd
  \/ TerminalExit

Spec == Init /\ [][Next]_vars

----------------------------------------------------------------------------
(* One execution, alone, in a window that may already hold a runner *)

\* a runner terminal of an earlier activation, its shell integration active
ReadyRunner ==
  [name |-> TerminalName(Undefined), exited |-> FALSE, si |-> TRUE,
   got |-> <<>>]

InitOne == InitFrom({RunConfig}, {<<>>, <<ReadyRunner>>})

ExecuteOne ==
  /\ \E r \in 1..Len(scripts) : Visible(scripts[r]) /\ Execute(1, r)
  /\ UNCHANGED chainVars
RunStartOne == RunStartReady(1) \/ RunStartWait(1)
CommandEndOne ==
  \E c \in ExitCodes : CommandSucceeds(1, c) \/ CommandFails(1, c)

NextOne ==
  \/ ExecuteOne
  \/ Resolve(1)
  \/ RunStartOne
  \/ ShellReady
  \/ Resume(1)
  \/ TimerLapses(1)
  \/ CommandEndOne
  \/ TerminalExit

SpecOne == InitOne /\ [][NextOne]_vars

\* the 3000 ms timer of waitForShellIntegration fires
SpecWait == SpecOne /\ WF_vars(TimerLapses(1))

\* the host runs what is ready to run, the timer fires, and the shell
\* reports the end of every command it was given
SpecLive ==
  /\ SpecOne
  /\ WF_vars(Resolve(1))
  /\ WF_vars(RunStartOne)
  /\ WF_vars(Resume(1))
  /\ WF_vars(TimerLapses(1))
  /\ WF_vars(CommandEndOne)

----------------------------------------------------------------------------
(* Loads and refreshes of the project list *)

\* loadAndResolveProjects, reading the entries file and the folders of the
\* window as they are at that moment
LoadAndResolveProjects(file, folders) ==
  /\ Len(chains) + Len(NewChains(ResolvedProjects(file, folders))) <= MaxChains
  /\ projectsFile' = file
  /\ workspaceFolders' = folders
  /\ projects' = ResolvedProjects(file, folders)
  /\ currentProject' = FirstActive(ResolvedProjects(file, folders))
  /\ shown' = MessageFor(ResolvedProjects(file, folders))
  /\ chains' = chains \o NewChains(ResolvedProjects(file, folders))
  /\ UNCHANGED <<scripts, project, gcfg, phase, root, cur, frames,
                 allCommands, error, thrownAt, log, alog>>
  /\ UNCHANGED sinkVars

\* the constructor of ProjectService has loaded an entries file without
\* entries in a window without folder; the scripts are those of the run
\* configuration, whose project is not among the entries to come
InitLoad ==
  /\ InitEngine({RunConfig}, {<<>>})
  /\ Loaded(<<>>, <<>>)
  /\ Unwatched

\* FileWatcherService: projects.jsonc has changed, and the tree provider
\* refreshes
FileChanged ==
  \E file \in ProjectFiles :
    /\ file # projectsFile
    /\ Quiescent
    /\ LoadAndResolveProjects(file, workspaceFolders)
    /\ UNCHANGED watchVars

\* the prodash.refresh command: the folders of the window may have changed
\* since the last load
RefreshCommand ==
  \E folders \in FolderLists :
    /\ Quiescent
    /\ LoadAndResolveProjects(projectsFile, folders)
    /\ UNCHANGED watchVars

NextLoad ==
  \/ FileChanged
  \/ RefreshCommand

SpecLoad == InitLoad /\ [][NextLoad]_vars

----------------------------------------------------------------------------
(* FileWatcherService *)

CreateWatchers(files) ==
  [k \in 1..Len(files) |-> [file |-> files[k], disposed |-> FALSE]]

\* the array is emptied and its watchers are left as they are
DisposeNone(all, ws) == all

\* dispose(): this.watchers.forEach(w => w.dispose())
Dispose(all, ws) ==
  [k \in 1..Len(all) |->
     IF \E j \in 1..Len(ws) : ws[j] = k
     THEN [all[k] EXCEPT !.disposed = TRUE] ELSE all[k]]

\* initWatchers(callback) after the load that has left dashOf' and disk':
\* the watchers of the array are disposed, one watcher is created for every
\* file of the list, and createWatcher primes the cache, here cache, for it;
\* a disposed watcher delivers no event
InitWatchers(cache, bad) ==
  LET files == WatchedFiles(dashOf')
  IN  /\ created' = Dispose(created, watchers) \o CreateWatchers(files)
      /\ watchers' = [k \in 1..Len(files) |-> Len(created) + k]
      /\ lastFileContents' = PrimeContentCache(cache, files, disk', bad)
      /\ pending' = {w \in pending : ~created'[w].disposed}

\* ProDashTreeProvider.refresh(): ProjectService.refresh() reads
\* projects.jsonc and resolves the projects; initializeProjectFiles creates
\* the missing .prodash directories of the active ones
TreeRefresh ==
  /\ refreshes < MaxRefreshes
  /\ Quiescent
  /\ LET file == ParseProjects(ReadFile(disk, GlobalProjectsFile))
         after == ResolveDash(ResolvedProjects(file, workspaceFolders),
                              dashDirs)
     IN  /\ LoadAndResolveProjects(file, workspaceFolders)
         /\ dashDirs' = after.dirs
         /\ dashOf' = after.paths
         /\ disk' = DiskAfter(disk, after.dirs \ dashDirs)
  /\ refreshes' = refreshes + 1

\* the state activate() leaves: the constructor of ProjectService has loaded
\* the projects, and FileWatcherService.init has created the watchers
InitWatch ==
  /\ InitEngine({RunConfig}, {<<>>})
  /\ \E content \in ContentsOf(GlobalProjectsFile) \cup {Absent},
        folders \in {<<>>, <<WatchHome>>},
        dirs \in {{}, {WatchHome}},
        sc \in ContentsOf(ScriptsFile(ProDashFolder(WatchHome))) \cup {Absent},
        bad \in Unreadable :
       LET before == [f \in TrackedFiles |->
                        IF f = GlobalProjectsFile THEN content ELSE sc]
           file == ParseProjects(ReadFile(before, GlobalProjectsFile))
           after == ResolveDash(ResolvedProjects(file, folders), dirs)
           files == WatchedFiles(after.paths)
       IN  /\ WatchHome \notin dirs => sc = Absent
           /\ Loaded(file, folders)
           /\ dashDirs = after.dirs
           /\ dashOf = after.paths
           /\ disk = DiskAfter(before, after.dirs \ dirs)
           /\ created = CreateWatchers(files)
           /\ watchers = [k \in 1..Len(files) |-> k]
           /\ lastFileContents =
                PrimeContentCache([f \in TrackedFiles |-> Undefined], files,
                                  DiskAfter(before, after.dirs \ dirs), bad)
  /\ pending = {}
  /\ refreshes = 0
  /\ wlog = NoEntries

\* another process writes or deletes a tracked file; every live watcher of
\* the file has an event to deliver
FileWritten ==
  \E f \in TrackedFiles : \E c \in ContentsOf(f) \cup {Absent} :
    /\ disk[f] = Absent => c # Absent
    /\ f # GlobalProjectsFile => WatchHome \in dashDirs
    /\ disk' = [disk EXCEPT ![f] = c]
    /\ pending' = pending \cup {w \in 1..Len(created) :
                                  ~created[w].disposed /\ created[w].file = f}
    /\ UNCHANGED <<dashDirs, dashOf, lastFileContents, watchers, created,
                   refreshes, wlog>>
    /\ UNCHANGED <<scripts, project, gcfg, phase, root, cur, frames,
                   allCommands, error, thrownAt, log>>
    /\ UNCHANGED <<sinkVars, loadVars, chainVars>>

\* the prodash.refresh command: the tree is refreshed, the watchers stay
ManualRefresh ==
  /\ TreeRefresh
  /\ UNCHANGED <<lastFileContents, watchers, created, pending, wlog>>

\* every event counts as a change
ContentUnchangedNever(oldContent, newContent) == FALSE

\* oldContent === newContent
ContentUnchanged(oldContent, newContent) == oldContent = newContent

Entry1(level, what, f) == <<[level |-> level, what |-> what, file |-> f]>>

\* contentAwareRefresh, lines 59-62: the content is the cached one
EventIgnored(w) ==
  LET f == created[w].file
  IN  /\ w \in pending
      /\ Quiescent
      /\ ContentUnchanged(lastFileContents[f], ReadFile(disk, f))
      /\ pending' = pending \ {w}
      /\ wlog' = Entry1("info", "identical", f)
      /\ UNCHANGED <<dashDirs, dashOf, disk, lastFileContents, watchers,
                     created, refreshes>>
      /\ UNCHANGED <<scripts, project, gcfg, phase, root, cur, frames,
                     allCommands, error, thrownAt, log>>
      /\ UNCHANGED <<sinkVars, loadVars, chainVars>>

\* contentAwareRefresh, lines 64-72: the cache is updated, the tree is
\* refreshed and the watchers are created anew
EventRefreshes(w) ==
  LET f == created[w].file
  IN  /\ w \in pending
      /\ ~ContentUnchanged(lastFileContents[f], ReadFile(disk, f))
      /\ TreeRefresh
      /\ \E bad \in Unreadable :
           InitWatchers([lastFileContents EXCEPT ![f] = ReadFile(disk, f)],
                        bad)
      /\ wlog' = Entry1("info", "changed", f)

\* contentAwareRefresh, lines 49-54: the file exists and cannot be read
EventUnreadable(w) ==
  LET f == created[w].file
  IN  /\ w \in pending
      /\ Exists(disk, f)
      /\ TreeRefresh
      /\ \E bad \in Unreadable : InitWatchers(lastFileContents, bad)
      /\ wlog' = Entry1("warning", "unreadable", f)

FileEventIgnored == \E w \in pending : EventIgnored(w)
FileEventRefreshes == \E w \in pending : EventRefreshes(w)
FileEventUnreadable == \E w \in pending : EventUnreadable(w)

NextWatch ==
  \/ FileWritten
  \/ ManualRefresh
  \/ FileEventIgnored
  \/ FileEventRefreshes
  \/ FileEventUnreadable

SpecWatch == InitWatch /\ [][NextWatch]_vars

----------------------------------------------------------------------------
(* The ON_ACTIVATE scripts of the active project *)

\* the scripts whose name is in E carry event: "ON_ACTIVATE"
WithEvents(all, E) ==
  [r \in 1..Len(all) |->
     [all[r] EXCEPT !.event = IF all[r].name \in E THEN "ON_ACTIVATE"
                              ELSE Undefined]]

\* the run configuration with one to MaxActivate ON_ACTIVATE scripts
ActivateConfigs ==
  {[RunConfig EXCEPT !.scripts = WithEvents(RunConfig.scripts, E)] :
     E \in {S \in SUBSET {RunConfig.scripts[r].name :
                            r \in 1..Len(RunConfig.scripts)} :
              Cardinality(S) \in 1..MaxActivate}}

\* the project of the scripts is configured and its folder is open: the load
\* of the constructor has built the promise chain of its ON_ACTIVATE scripts
InitActivate == InitFrom(ActivateConfigs, {<<>>})

Failed(e) == phase[e] \in {"ExpansionFailed", "ExecutionFailed"}

LastExec(c) == chains[c].execs[Len(chains[c].execs)]

\* the promise the next then-callback of chain c hangs on is fulfilled
Continuation(c) ==
  /\ chains[c].status = "running"
  /\ Len(chains[c].execs) < Len(chains[c].scripts)
  /\ chains[c].execs # <<>> => phase[LastExec(c)] = "Completed"
  /\ \E e \in Execs : phase[e] = "Idle"

\* the promise of an execute of chain c is rejected
Rejected(c) ==
  /\ chains[c].status = "running"
  /\ chains[c].execs # <<>>
  /\ Failed(LastExec(c))

\* a callback of a chain is in the microtask queue: it runs before the host
\* dispatches the next event
ChainPending ==
  \E c \in 1..Len(chains) : Continuation(c) \/ Rejected(c)

\* the next script is started without regard to the one before
ActivateNextEager(c) ==
  /\ chains[c].status = "running"
  /\ Len(chains[c].execs) < Len(chains[c].scripts)
  /\ \E e \in Execs :
       /\ Execute(e, chains[c].scripts[Len(chains[c].execs) + 1])
       /\ chains' = [chains EXCEPT ![c].execs = Append(@, e)]
  /\ UNCHANGED alog

\* promise.then(() => ScriptExecutionService.instance.execute(script,
\* project)): the callback runs when the execute before it is fulfilled
ActivateNext(c) ==
  /\ Continuation(c)
  /\ \E e \in Execs :
       /\ Execute(e, chains[c].scripts[Len(chains[c].execs) + 1])
       /\ chains' = [chains EXCEPT ![c].execs = Append(@, e)]
  /\ UNCHANGED alog

\* the entry of the .catch of the chain
HaltedEntry(c) ==
  [level |-> "error", what |-> "activationHalted",
   project |-> chains[c].project, message |-> error[LastExec(c)]]

\* .catch(error => logError(`An error occurred during ON_ACTIVATE script
\* execution ... Further activation scripts ... were halted.`, error)): the
\* rejection skips the then-callbacks that are left
ActivateCatch(c) ==
  /\ Rejected(c)
  /\ cur = 0
  /\ chains' = [chains EXCEPT ![c].status = "halted"]
  /\ alog' = Append(alog, HaltedEntry(c))
  /\ UNCHANGED <<scripts, project, gcfg, phase, root, cur, frames,
                 allCommands, error, thrownAt, log>>
  /\ UNCHANGED <<sinkVars, loadVars, watchVars>>

\* a refresh that finds the entries file and the folders as they were
ReloadProjects ==
  /\ ~ChainPending
  /\ Quiescent
  /\ LoadAndResolveProjects(projectsFile, workspaceFolders)
  /\ UNCHANGED watchVars

ActivateStep == \E c \in 1..Len(chains) : ActivateNext(c)
ActivateHalt == \E c \in 1..Len(chains) : ActivateCatch(c)
ShellReadyEvent == ~ChainPending /\ ShellReady
TimerEvent == ~ChainPending /\ Timer
CommandEndEvent == ~ChainPending /\ CommandEnd
TerminalExitEvent == ~ChainPending /\ TerminalExit

NextActivate ==
  \/ ReloadProjects
  \/ ActivateStep
  \/ ActivateHalt
  \/ ResolveStep
  \/ RunStart
  \/ ResumeRun
  \/ ShellReadyEvent
  \/ TimerEvent
  \/ CommandEndEvent
  \/ TerminalExitEvent

SpecActivate == InitActivate /\ [][NextActivate]_vars

----------------------------------------------------------------------------
(* The scripts file is edited while a script is expanded *)

\* the contents the scripts file of the project has, one after the other:
\* Main calls A and B; an edit changes the commands of A and B, makes B call
\* Main, removes B, or gives B another terminal
EditScripts(a, b) ==
  <<ScriptRec("Main", Undefined, <<Call("A"), Call("B")>>),
    ScriptRec("A", Undefined, <<<<a>>>>),
    b>>

EditVersions ==
  {EditScripts("a1", ScriptRec("B", Undefined, <<<<"b1">>>>)),
   EditScripts("a2", ScriptRec("B", Undefined, <<<<"b2">>>>)),
   EditScripts("a1", ScriptRec("B", Undefined, <<Call("Main")>>)),
   EditScripts("a1", ScriptRec("B2", Undefined, <<<<"b1">>>>)),
   EditScripts("a1", ScriptRec("B", "batch", <<<<"b1">>>>))}

EditConfigs ==
  {[scripts |-> v, project |-> DefaultProject, gcfg |-> DefaultGlobalPath] :
     v \in EditVersions}

InitEdit == InitWith(EditConfigs)

\* another process writes the scripts file: getScripts reads the file anew
\* on every call (loadConfiguration keeps no copy), so the next lookup of
\* resolveScript sees the new content
ScriptsFileEdited ==
  /\ \E v \in EditVersions : v # scripts /\ scripts' = v
  /\ UNCHANGED <<project, gcfg, phase, root, cur, frames, allCommands, error,
                 thrownAt, log>>
  /\ UNCHANGED termVars

NextEdit ==
  \/ ScriptsFileEdited
  \/ ExecuteAny
  \/ EnterCycle(1)
  \/ EnterPush(1)
  \/ StepCommand(1)
  \/ StepNotFound(1)
  \/ StepMismatch(1)
  \/ StepCall(1)
  \/ ReturnNested(1)
  \/ ReturnRoot(1)

SpecEdit == InitEdit /\ [][NextEdit]_vars

----------------------------------------------------------------------------
(* The script graph *)

DirectiveLines(script) ==
  {k \in 1..Len(Commands(script)) : IsDirective(Commands(script)[k])}

\* the scripts the directives of a script resolve to (0: to none)
Targets(script) ==
  {FindIdx(scripts, RunScriptName(Commands(script)[k])) :
     k \in DirectiveLines(script)}

RECURSIVE Closure(_)
Closure(S) ==
  LET N == S \cup UNION {Targets(scripts[j]) : j \in S \ {0}}
  IN  IF N = S THEN S ELSE Closure(N)

\* the scripts reached from script i by one or more directives
ReachFrom(i) == Closure(Targets(scripts[i])) \ {0}

OnCycle(i) == i \in ReachFrom(i)

RootIdx(e) == FindIdx(scripts, root[e].name)

Started(e) == phase[e] # "Idle"

\* the names of the scripts an expansion of execution e can enter
ReachableNames(e) ==
  {scripts[j].name : j \in {RootIdx(e)} \cup ReachFrom(RootIdx(e))}

NoDuplicates(seq) ==
  \A j, k \in 1..Len(seq) : j # k => seq[j] # seq[k]

----------------------------------------------------------------------------
(* Properties of the expansion *)

\* C1: every command list a successful expansion returns has no line that
\* holds a {{RUN_SCRIPT:...}} token
NoDirectiveRemains ==
  \A e \in Execs :
    phase[e] = "Expanded" =>
      \A k \in 1..Len(allCommands[e]) : ~IsDirective(allCommands[e][k])

\* C2: while a script is expanded, the activations that have passed the
\* check carry pairwise different names, so their number and every call
\* stack stay within the number of script names reachable from the root
DepthBounded ==
  \A e \in Execs :
    (cur = e /\ phase[e] = "Expanding") =>
      LET entered == {k \in 1..Len(frames) : frames[k].pc = "loop"}
      IN  /\ \A j, k \in entered :
                j # k => frames[j].script.name # frames[k].script.name
          /\ Cardinality(entered) <= Cardinality(ReachableNames(e))
          /\ \A k \in 1..Len(frames) :
                Len(frames[k].seen) <= Cardinality(ReachableNames(e))

\* where the recursion is: per activation, outermost first, twice its line
\* index, plus one once the activation has passed the check
Position(fs) ==
  [k \in 1..Len(fs) |-> 2 * fs[k].i + IF fs[k].pc = "loop" THEN 1 ELSE 0]

\* a comes before b in the lexicographic order
LexLess(a, b) ==
  \E k \in 1..Len(b) :
    /\ \A j \in 1..(k - 1) : j <= Len(a) /\ a[j] = b[j]
    /\ k = Len(a) + 1 \/ (k <= Len(a) /\ a[k] < b[k])

\* C2: the expansion of every root script of every script set, cyclic or
\* not, terminates: its depth is bounded by the number of reachable names,
\* no line index passes the end of its script, every step of the recursion
\* moves the position forward in the lexicographic order, and an expansion
\* that has not ended has an activation that is at its check or in its loop
ExpansionTerminates ==
  /\ [](/\ DepthBounded
        /\ \A k \in 1..Len(frames) :
             frames[k].i <= Len(Commands(frames[k].script)) + 1
        /\ phase[1] = "Expanding" =>
             /\ cur = 1
             /\ frames # <<>>
             /\ Top.pc \in {"enter", "loop"})
  /\ [][(phase[1] = "Expanding" /\ phase'[1] = "Expanding") =>
          LexLess(Position(frames), Position(frames'))]_vars

\* a cycle through three scripts is about to be rejected at depth four
DeepCycleRejected ==
  /\ cur = 1
  /\ phase[1] = "Expanding"
  /\ Len(frames) = 4
  /\ Top.pc = "enter"
  /\ Includes(Top.seen, Top.script.name)
  /\ Cardinality(ReachableNames(1)) = 3

\* the script names an error message gives
ErrorNames(err) ==
  CASE err.kind = "recursive" -> <<err.name>>
    [] err.kind = "notFound" -> <<err.name>>
    [] err.kind = "mismatch" -> <<err.parent, err.child>>
    [] OTHER -> <<>>

Finished(e) == phase[e] \in {"Expanded", "ExpansionFailed"}

NothingSent(e) ==
  \A t \in 1..Len(terminals) :
    \A k \in 1..Len(terminals[t].got) : terminals[t].got[k].exec # e

CycleAttempt(e) ==
  /\ cur = e
  /\ phase[e] = "Expanding"
  /\ Top.pc = "enter"
  /\ Includes(Top.seen, Top.script.name)

\* C4: no call stack ever holds a name twice, and entering a script whose
\* name is on the stack ends the expansion with the cycle error: no command
\* list is returned for it and nothing of it reaches a terminal
CycleAborts ==
  [][/\ \A k \in 1..Len(frames') : NoDuplicates(frames'[k].seen)
     /\ \A e \in Execs :
          /\ CycleAttempt(e) =>
               /\ phase'[e] = "ExpansionFailed"
               /\ error'[e].kind = "recursive"
          /\ phase'[e] = "ExpansionFailed" =>
               /\ allCommands'[e] = NoCommands
               /\ runTerm'[e] = 0
               /\ NothingSent(e)']_vars

\* a cycle was met after a line had been resolved, and the execution failed
CycleAfterLine ==
  \E e \in Execs :
    /\ phase[e] = "ExpansionFailed"
    /\ error[e].kind = "recursive"
    /\ ~IsDirective(Commands(root[e])[1])
    /\ Len(thrownAt[e]) = 2

\* from the root, every directive finds its script, with the same terminal,
\* and no script is on a cycle
Clean(i) ==
  \A j \in {i} \cup ReachFrom(i) :
    /\ 0 \notin Targets(scripts[j])
    /\ \A n \in Targets(scripts[j]) :
         EffTerminal(scripts[n]) = EffTerminal(scripts[j])
    /\ ~OnCycle(j)

\* C5: the cycle error is raised only for a script that is on a cycle, and
\* an expansion in which a script is called more than once, none on a cycle,
\* succeeds
NoFalseCycle ==
  \A e \in Execs :
    /\ error[e].kind = "recursive" => OnCycle(FindIdx(scripts, error[e].name))
    /\ (Started(e) /\ Clean(RootIdx(e))) => phase[e] # "ExpansionFailed"

\* the root calls the same script on two lines, and the expansion succeeded
SharedTargetExpanded ==
  /\ phase[1] = "Expanded"
  /\ \E j, k \in DirectiveLines(root[1]) :
       /\ j < k
       /\ RunScriptName(Commands(root[1])[j]) = RunScriptName(Commands(root[1])[k])
  /\ Len(allCommands[1]) = 2

\* the terminal kind of a script: no terminal property is the default kind
TerminalKind(script) ==
  IF script.terminal \in {Undefined, ""} THEN "default" ELSE script.terminal

\* C6: at a directive whose target exists, the two terminal kinds are
\* compared: different kinds end the expansion with the mismatch error,
\* which gives both names and both kinds; equal kinds enter the target
TerminalsCompared ==
  [][\A e \in Execs :
       (AtLine(e) /\ IsDirective(CurLine)
          /\ FindIdx(scripts, RunScriptName(CurLine)) # 0) =>
         LET target == scripts[FindIdx(scripts, RunScriptName(CurLine))]
         IN  IF TerminalKind(Top.script) # TerminalKind(target)
             THEN /\ phase'[e] = "ExpansionFailed"
                  /\ error'[e] =
                       [kind |-> "mismatch",
                        parent |-> Top.script.name,
                        parentTerminal |-> TerminalKind(Top.script),
                        child |-> target.name,
                        childTerminal |-> TerminalKind(target)]
             ELSE /\ phase'[e] = "Expanding"
                  /\ Len(frames') = Len(frames) + 1
                  /\ frames'[Len(frames')].script = target]_vars

\* a script without terminal called a batch script
DefaultCalledBatch ==
  /\ phase[1] = "ExpansionFailed"
  /\ error[1].kind = "mismatch"
  /\ root[1].terminal = Undefined
  /\ error[1].parentTerminal = "default"
  /\ error[1].childTerminal = "batch"

\* the depth-first, in-order flattening of a script
RECURSIVE Flatten(_)
Flatten(script) ==
  LET lines == Commands(script)
      RECURSIVE From(_)
      From(k) ==
        IF k > Len(lines) THEN <<>>
        ELSE (IF IsDirective(lines[k])
              THEN Flatten(scripts[FindIdx(scripts, RunScriptName(lines[k]))])
              ELSE <<ResolveVariables(lines[k], project, gcfg)>>)
             \o From(k + 1)
  IN  From(1)

\* C7: the command list of a successful expansion is the depth-first,
\* in-order flattening of the root; the README example yields its three
\* commands in order
ExpansionIsFlattening ==
  \A e \in Execs :
    phase[e] = "Expanded" =>
      /\ allCommands[e] = Flatten(root[e])
      /\ (scripts = ReadmeConfig.scripts /\ root[e].name = "Start") =>
           allCommands[e] =
             <<<<"echo hi">>, <<"npm run lint">>, <<"npm run start">>>>

\* the README example has been expanded
ReadmeExpanded ==
  /\ scripts = ReadmeConfig.scripts
  /\ root[1].name = "Start"
  /\ phase[1] = "Expanded"
  /\ Len(allCommands[1]) = 3

----------------------------------------------------------------------------
(* Properties of runInTerminal *)

\* the lines execution e has handed to its terminal, in order
GivenBy(e) ==
  IF runTerm[e] = 0 THEN <<>>
  ELSE SelectSeq(terminals[runTerm[e]].got, LAMBDA g : g.exec = e)

\* execution e runs with completion signaling
Signaling(e) ==
  /\ runTerm[e] # 0
  /\ hasSI[e]
  /\ terminals[runTerm[e]].si

\* C8: with completion signaling, the lines are given one by one through
\* executeCommand, line k+1 only once the end event of line k has been seen
\* with exit code 0, so at most one command of an execution is in flight
SentAfterSuccess ==
  \A e \in Execs :
    Signaling(e) =>
      LET given == GivenBy(e)
      IN  /\ \A k \in 1..Len(given) :
                /\ given[k].k = k
                /\ given[k].api = "executeCommand"
                /\ given[k].line = allCommands[e][k]
          /\ Len(given) <= Len(ended[e]) + 1
          /\ \A k \in 1..(Len(given) - 1) : ended[e][k] = 0
          /\ Cardinality({h \in inflight : h[1] = e}) <= 1
          /\ Cardinality({l \in listeners : l.on = "end" /\ l.exec = e}) <= 1

\* the second command is in flight after the first has ended with code 0
SecondAfterFirst ==
  \E e \in Execs :
    /\ Signaling(e)
    /\ phase[e] = "AwaitCommand"
    /\ idx[e] = 2
    /\ ended[e] = <<0>>
    /\ Len(GivenBy(e)) = 2

\* C9: once a command has ended with a code other than 0, undefined
\* included, the execution has failed and no later line of its list is ever
\* given to the terminal
FailureHalts ==
  \A e \in Execs :
    \A k \in 1..Len(ended[e]) :
      ended[e][k] # 0 =>
        /\ phase[e] = "ExecutionFailed"
        /\ k = Len(ended[e])
        /\ Len(GivenBy(e)) = k
        /\ Len(allCommands[e]) >= k

\* the second of three commands ended without exit code; the third is not
\* given
HaltedAtSecond ==
  \E e \in Execs :
    /\ phase[e] = "ExecutionFailed"
    /\ ended[e] = <<0, NoExitCode>>
    /\ Len(allCommands[e]) = 3
    /\ Len(GivenBy(e)) = 2

----------------------------------------------------------------------------
(* Properties of execute *)

ExpansionError(e) == error[e].kind \in {"recursive", "notFound", "mismatch"}

\* C11: runInTerminal is called only with the command list of an expansion
\* that has returned: an execution that is expanding or whose expansion has
\* thrown has no command list and no terminal, no line of it is in any
\* terminal, and no step of an expansion obtains or creates a terminal
SinkAfterExpansion ==
  /\ [](\A e \in Execs :
          /\ ExpansionError(e) => phase[e] = "ExpansionFailed"
          /\ phase[e] \in {"Idle", "Expanding", "ExpansionFailed"} =>
               /\ allCommands[e] = NoCommands
               /\ runTerm[e] = 0
               /\ NothingSent(e)
               /\ e \notin timers
               /\ \A l \in listeners : l.exec # e)
  /\ [][\A e \in Execs :
          (phase[e] \in {"Idle", "Expanding"}
             /\ phase'[e] \in {"Expanding", "ExpansionFailed"}) =>
            terminals' = terminals]_vars

\* the first execution failed at a missing script after it had resolved a
\* line: there is no terminal at all
FailedBeforeAnyTerminal ==
  \E e \in Execs :
    /\ phase[e] = "ExpansionFailed"
    /\ error[e].kind = "notFound"
    /\ ~IsDirective(Commands(root[e])[1])
    /\ terminals = <<>>

\* the states of the execution state machine
StageOf(p) ==
  IF p \in {"WaitIntegration", "Resumed", "AwaitCommand"} THEN "Executing"
  ELSE p

StageSteps ==
  {<<"Idle", "Expanding">>, <<"Expanding", "ExpansionFailed">>,
   <<"Expanding", "Expanded">>, <<"Expanded", "Executing">>,
   <<"Executing", "ExecutionFailed">>, <<"Executing", "Completed">>}

Ended(e) == phase[e] \in {"ExpansionFailed", "ExecutionFailed", "Completed"}

\* the number of lines execution e has handed to the terminals
SentCount(terms, e) ==
  Cardinality(UNION {{<<t, k>> : k \in {j \in 1..Len(terms[t].got) :
                                            terms[t].got[j].exec = e}} :
                       t \in 1..Len(terms)})

\* C12: an execution moves along Idle, Expanding, ExpansionFailed or
\* Expanded, Executing, ExecutionFailed or Completed; once started it
\* reaches one of the three final states, given that the timer fires and
\* every command reports its end; a final state is never left, and an
\* execution in it hands no further line to a terminal
ExecutionLifecycle ==
  /\ [][\A e \in Execs :
          \/ StageOf(phase'[e]) = StageOf(phase[e])
          \/ <<StageOf(phase[e]), StageOf(phase'[e])>> \in StageSteps]_vars
  /\ [][\A e \in Execs :
          Ended(e) =>
            /\ phase'[e] = phase[e]
            /\ error'[e] = error[e]
            /\ SentCount(terminals', e) = SentCount(terminals, e)]_vars
  /\ (phase[1] # "Idle") ~> Ended(1)

\* the execution has completed after its three commands ended with code 0
ThreeCompleted ==
  /\ phase[1] = "Completed"
  /\ root[1].name = "Three"
  /\ ended[1] = <<0, 0, 0>>

\* the positions of the error entries in the log of execution e
ErrorEntries(e) == {k \in 1..Len(log[e]) : log[e][k].level = "error"}

\* C13: an execution has failed exactly if execute has thrown an error, and
\* exactly then its log has an error entry: one, the last entry, with the
\* message of the thrown error; an execution that completed has thrown
\* nothing and logged no error
FailureLoggedAndRaised ==
  \A e \in Execs :
    /\ phase[e] \in {"ExpansionFailed", "ExecutionFailed"} <=>
         error[e] # NoError
    /\ error[e] # NoError <=> ErrorEntries(e) # {}
    /\ error[e] # NoError =>
         /\ ErrorEntries(e) = {Len(log[e])}
         /\ log[e][Len(log[e])] = FailureEntry(root[e], error[e])
    /\ phase[e] = "Completed" => error[e] = NoError

\* one execution failed in its expansion and another at a command
BothFailuresLogged ==
  \E e, d \in Execs :
    /\ phase[e] = "ExpansionFailed"
    /\ phase[d] = "ExecutionFailed"
    /\ ErrorEntries(e) # {}
    /\ ErrorEntries(d) # {}

----------------------------------------------------------------------------
(* Properties of the terminals *)

\* the warnings about missing shell integration, in all logs
FallbackWarnings ==
  UNION {{<<e, k>> : k \in {j \in 1..Len(log[e]) :
                              /\ log[e][j].level = "warning"
                              /\ log[e][j].what = "noShellIntegration"}} :
         e \in Execs}

\* execution e has run its loop without shell integration
Degraded(e) ==
  /\ ~hasSI[e]
  /\ phase[e] \in {"Resumed", "AwaitCommand", "Completed", "ExecutionFailed"}

\* C14: an execution whose wait for shell integration returned false has
\* handed all its lines to sendText, in order, waits for nothing and has
\* completed; the warning about it is in the logs at most once, whatever
\* the number of lines, executions and terminals
DegradedOnce ==
  /\ Cardinality(FallbackWarnings) <= 1
  /\ warnedAboutFallback <=> FallbackWarnings # {}
  /\ \A e \in Execs :
       Degraded(e) =>
         /\ phase[e] = "Completed"
         /\ GivenBy(e) = SendAll(e, 1)
         /\ Len(GivenBy(e)) = Len(allCommands[e])
         /\ ended[e] = <<>>
         /\ \A l \in listeners : l.exec # e
         /\ \A h \in inflight : h[1] # e
         /\ allCommands[e] # <<>> => warnedAboutFallback

\* two executions have sent their lines without shell integration to two
\* terminals, and there is one warning
TwoDegradedOneWarning ==
  \E e, d \in Execs :
    /\ Degraded(e)
    /\ Degraded(d)
    /\ runTerm[e] # runTerm[d]
    /\ Len(GivenBy(e)) + Len(GivenBy(d)) >= 4
    /\ Cardinality(FallbackWarnings) = 1

\* C15: the wait for shell integration ends: no wait is begun when the
\* terminal has shell integration; a wait that is open has its listener and
\* its timer; it ends with the ready event of its terminal, and then with
\* true, or with the timer, and then the lines are all handed to sendText;
\* the timer fires, so no wait stays open
WaitEnds ==
  /\ [](phase[1] = "WaitIntegration" =>
          /\ 1 \in timers
          /\ ReadyListener(1, runTerm[1]) \in listeners
          /\ ~terminals[runTerm[1]].si)
  /\ [][phase[1] = "Expanded" =>
          IF terminals'[runTerm'[1]].si
          THEN /\ hasSI'[1]
               /\ phase'[1] \in {"AwaitCommand", "Completed"}
               /\ timers' = timers
          ELSE phase'[1] = "WaitIntegration"]_vars
  /\ [][(phase[1] = "WaitIntegration" /\ phase'[1] # "WaitIntegration") =>
          /\ 1 \notin timers'
          /\ ReadyListener(1, runTerm[1]) \notin listeners'
          /\ \/ /\ phase'[1] = "Resumed"
                /\ hasSI'[1]
                /\ terminals'[runTerm[1]].si
             \/ /\ phase'[1] = "Completed"
                /\ ~hasSI'[1]
                /\ ~terminals'[runTerm[1]].si
                /\ SentCount(terminals', 1) = Len(allCommands[1])
                /\ \A k \in 1..Len(terminals'[runTerm[1]].got) :
                     terminals'[runTerm[1]].got[k].api = "sendText"]_vars
  /\ (phase[1] = "WaitIntegration") ~> (phase[1] # "WaitIntegration")

\* the timer has ended the wait and the three lines went to sendText
LapsedAndSent ==
  /\ phase[1] = "Completed"
  /\ ~hasSI[1]
  /\ root[1].name = "Three"
  /\ GivenBy(1) = SendAll(1, 1)
  /\ 1 \notin timers

\* the runner terminals of name n that have not exited
Live(terms, n) ==
  {t \in 1..Len(terms) : terms[t].name = n /\ ~terms[t].exited}

RunnerNames == {TerminalName(Undefined), TerminalName("powershell")}

\* C16: there is at most one live runner terminal of each name; an
\* execution that obtains its terminal gets the live runner of its name if
\* there is one, and no terminal is created then; it gets a new terminal
\* only if there is none; it never gets a terminal that has exited
RunnerReused ==
  /\ [](\A n \in RunnerNames : Cardinality(Live(terminals, n)) <= 1)
  /\ [][\A e \in Execs :
          (runTerm[e] = 0 /\ runTerm'[e] # 0) =>
            LET n == TerminalName(root[e].terminal)
            IN  /\ terminals'[runTerm'[e]].name = n
                /\ ~terminals'[runTerm'[e]].exited
                /\ IF Live(terminals, n) # {}
                   THEN /\ runTerm'[e] \in Live(terminals, n)
                        /\ Len(terminals') = Len(terminals)
                   ELSE /\ runTerm'[e] = Len(terminals) + 1
                        /\ Len(terminals') = Len(terminals) + 1]_vars
  /\ [][Len(terminals') # Len(terminals) =>
          \E e \in Execs : runTerm[e] = 0 /\ runTerm'[e] = Len(terminals')]_vars

\* the runner of the first execution has exited, and the second execution
\* of the same terminal name runs in a new one
ExitedRunnerReplaced ==
  \E e, d \in Execs :
    /\ runTerm[e] = 1
    /\ runTerm[d] = 2
    /\ terminals[1].name = terminals[2].name
    /\ terminals[1].exited
    /\ ~terminals[2].exited
    /\ Len(GivenBy(d)) > 0

\* C17: two executions whose scripts have different terminal kinds never
\* run in the same terminal
KindsNeverShare ==
  \A e, d \in Execs :
    (runTerm[e] # 0 /\ runTerm[e] = runTerm[d]) =>
      TerminalKind(root[e]) = TerminalKind(root[d])

\* the lines execution e has handed to terminal t, in order
Stream(t, e) == SelectSeq(terminals[t].got, LAMBDA g : g.exec = e)

\* C18: the lines of an execution are in its terminal in their order, and
\* nothing makes an execution wait for another: an execution whose
\* expansion has returned can always start its run, also while another
\* execution has a command running in the same terminal
StreamsNotSerialized ==
  /\ \A t \in 1..Len(terminals) :
       \A e \in Execs :
         /\ Stream(t, e) # <<>> => runTerm[e] = t
         /\ \A k \in 1..Len(Stream(t, e)) :
              /\ Stream(t, e)[k].k = k
              /\ Stream(t, e)[k].line = allCommands[e][k]
  /\ \A e \in Execs :
       (cur = e /\ phase[e] = "Expanded") =>
         ENABLED (RunStartReady(e) \/ RunStartWait(e))

\* a terminal has a line of one execution between two lines of another
Interleaved ==
  \E t \in 1..Len(terminals) :
    \E i, j, k \in 1..Len(terminals[t].got) :
      /\ i < j
      /\ j < k
      /\ terminals[t].got[i].exec = terminals[t].got[k].exec
      /\ terminals[t].got[i].exec # terminals[t].got[j].exec

----------------------------------------------------------------------------
(* Frame properties *)

\* C19: no step changes the scripts getScripts returns, the project or the
\* global configuration path; the script an execution was started with is
\* one of them and stays as it is; a step in which one execution fails
\* leaves what belongs to every other execution, and the terminals, as they
\* are
RegistryUnchanged ==
  /\ [][/\ scripts' = scripts
        /\ project' = project
        /\ gcfg' = gcfg]_vars
  /\ [](\A e \in Execs :
          phase[e] # "Idle" => \E r \in 1..Len(scripts) : root[e] = scripts[r])
  /\ [][\A e \in Execs :
          /\ phase[e] # "Idle" => root'[e] = root[e]
          /\ (phase'[e] \in {"ExpansionFailed", "ExecutionFailed"}
                /\ phase[e] # phase'[e]) =>
               /\ terminals' = terminals
               /\ \A d \in Execs \ {e} :
                    /\ phase'[d] = phase[d]
                    /\ root'[d] = root[d]
                    /\ allCommands'[d] = allCommands[d]
                    /\ error'[d] = error[d]
                    /\ log'[d] = log[d]
                    /\ runTerm'[d] = runTerm[d]
                    /\ hasSI'[d] = hasSI[d]
                    /\ idx'[d] = idx[d]
                    /\ ended'[d] = ended[d]
                    /\ (d \in timers') = (d \in timers)
               /\ {l \in listeners' : l.exec # e} =
                    {l \in listeners : l.exec # e}
               /\ {h \in inflight' : h[1] # e} =
                    {h \in inflight : h[1] # e}]_vars

\* one execution has failed at a command, another has completed a composed
\* script, and the scripts are those of the start
FailedBesideCompleted ==
  \E e, d \in Execs :
    /\ phase[e] = "ExecutionFailed"
    /\ phase[d] = "Completed"
    /\ root[d].name = "Ps"
    /\ scripts = RunConfig.scripts

----------------------------------------------------------------------------
(* Names in directives *)

\* C20: a directive is resolved by its trimmed name: no expansion fails for
\* a missing script at a directive whose trimmed name is the name of a
\* script
TrimmedNameResolved ==
  \A e \in Execs :
    (phase[e] = "ExpansionFailed" /\ error[e].kind = "notFound") =>
      \A r \in 1..Len(scripts) :
        \A k \in DirectiveLines(scripts[r]) :
          RunScriptName(Commands(scripts[r])[k]) = error[e].name =>
            FindIdx(scripts, CalledScriptName(Commands(scripts[r])[k])) = 0

----------------------------------------------------------------------------
(* Missing and hidden targets *)

\* the expansion of execution e stands at a directive line whose target
\* name is the name of no script of the project
AtMissingTarget(e) ==
  /\ AtLine(e)
  /\ IsDirective(CurLine)
  /\ \A r \in 1..Len(scripts) : scripts[r].name # RunScriptName(CurLine)

\* C21: a directive that names a script the project does not have makes the
\* expansion fail, in the very step that meets it, with the not-found error
\* that carries the target name of the directive and the name of the calling
\* project; no command list is produced, and no expansion that came to a
\* command list has passed a directive with a missing target
MissingTargetFails ==
  /\ [](\A e \in Execs :
          phase[e] = "Expanded" =>
            /\ error[e] = NoError
            /\ 0 \notin Closure(Targets(scripts[RootIdx(e)])))
  /\ [][\A e \in Execs :
          AtMissingTarget(e) =>
            /\ phase'[e] = "ExpansionFailed"
            /\ error'[e] = [kind |-> "notFound",
                            name |-> RunScriptName(CurLine),
                            project |-> project.name]
            /\ frames' = <<>>
            /\ allCommands'[e] = NoCommands]_vars

\* the root Unknown = ["echo", "{{RUN_SCRIPT:Nope}}", "{{RUN_SCRIPT:Lint}}"]
\* has failed at its second line
UnknownTargetFailed ==
  /\ root[1].name = "Unknown"
  /\ phase[1] = "ExpansionFailed"
  /\ error[1] = [kind |-> "notFound", name |-> "Nope",
                 project |-> project.name]
  /\ thrownAt[1] = <<"Unknown">>
  /\ allCommands[1] = NoCommands

\* the expansion of execution e stands at a directive whose target is a
\* script the tree does not show, with the terminal of the calling script
AtHiddenTarget(e, r) ==
  /\ AtLine(e)
  /\ IsDirective(CurLine)
  /\ scripts[r].name = RunScriptName(CurLine)
  /\ \A q \in 1..(r - 1) : scripts[q].name # scripts[r].name
  /\ ~Visible(scripts[r])
  /\ EffTerminal(scripts[r]) = EffTerminal(Top.script)

\* C22: the target of a directive is looked up among all scripts of the
\* project: no expansion fails for a missing script while a script of that
\* name exists, hidden or not; a directive that names a hidden script (or
\* one with a leading underscore) enters that script; the scripts started
\* from the tree are never such scripts; and Ps = ["p1", "{{RUN_SCRIPT:Ps2}}"]
\* with the hidden Ps2 = "p2" expands to ["p1", "p2"]
HiddenTargetsFound ==
  /\ [](\A e \in Execs :
          /\ error[e].kind = "notFound" =>
                \A r \in 1..Len(scripts) : scripts[r].name # error[e].name
          /\ Started(e) => Visible(root[e])
          /\ (root[e].name = "Ps" /\ allCommands[e] # NoCommands) =>
                allCommands[e] = <<<<"p1">>, <<"p2">>>>)
  /\ [][\A e \in Execs : \A r \in 1..Len(scripts) :
          AtHiddenTarget(e, r) =>
            frames' = Append(frames, Frame(scripts[r], Top.seen))]_vars

\* Ps was started from the tree and its command list holds the line of the
\* hidden script Ps2; Loop has entered _Loop, which called Loop again
HiddenTargetExpanded ==
  \E e, d \in Execs :
    /\ root[e].name = "Ps"
    /\ allCommands[e] = <<<<"p1">>, <<"p2">>>>
    /\ \E r \in 1..Len(scripts) :
         scripts[r].name = "Ps2" /\ scripts[r].hidden
    /\ root[d].name = "Loop"
    /\ thrownAt[d] = <<"Loop", "_Loop">>
    /\ \E r \in 1..Len(scripts) :
         scripts[r].name = "_Loop" /\ ~scripts[r].hidden

----------------------------------------------------------------------------
(* Variable substitution *)

\* the places of a line where a {{NAME}} token starts, NAME made of
\* uppercase letters and underscores
TokenStarts(line) ==
  {i \in 1..Len(line) :
     /\ line[i] = LB
     /\ \E j \in (i + 2)..Len(line) :
          /\ line[j] = RB
          /\ \A k \in (i + 1)..(j - 1) : line[k] \in UpperAtoms}

\* the name of the token that starts at atom i
TokenName(line, i) ==
  LET j == Min({k \in (i + 1)..Len(line) : line[k] = RB})
  IN  Concat(SubSeq(line, i + 1, j - 1))

\* the names of the tokens of a line that are no recognized variable, from
\* left to right
UnknownTokens(line) ==
  LET at == Sorted({i \in TokenStarts(line) :
                      TokenName(line, i) \notin KnownVars})
  IN  [n \in 1..Len(at) |-> TokenName(line, at[n])]

\* C23: a line without directive that holds placeholders with unknown names
\* is resolved without an error: the step appends one line that holds the
\* same unknown {{NAME}} tokens in the same order, logs exactly one warning
\* for each occurrence, and the expansion goes on with the next line
UnknownPlaceholderKept ==
  /\ [](\A e \in Execs :
          (Started(e) /\ DirectiveLines(root[e]) = {}) =>
             phase[e] # "ExpansionFailed")
  /\ [][\A e \in Execs :
          (AtLine(e) /\ ~IsDirective(CurLine)) =>
            LET unknown == UnknownTokens(CurLine)
                top == frames'[Len(frames')]
            IN  /\ phase'[e] = "Expanding"
                /\ error'[e] = NoError
                /\ Len(frames') = Len(frames)
                /\ top.i = Top.i + 1
                /\ Len(top.resolved) = Len(Top.resolved) + 1
                /\ UnknownTokens(top.resolved[Len(top.resolved)]) = unknown
                /\ log'[e] = log[e] \o
                     [n \in 1..Len(unknown) |->
                        [level |-> "warning", what |-> "unresolved",
                         text |-> LB \o unknown[n] \o RB]]]_vars

\* Foos = ["echo {{FOO}} {{X}}{{FOO}}", "{{AB}}{{PROJECT_PATH}}"] is expanded:
\* the tokens are in the output, four warnings are in the log
UnknownKeptAndWarned ==
  /\ root[1].name = "Foos"
  /\ phase[1] = "Expanded"
  /\ project = DefaultProject
  /\ allCommands[1] =
       << <<"echo ", LB, "FOO", RB, " ", LB, "X", RB, LB, "FOO", RB>>,
          <<LB, "A", "B", RB, "C:", FSL, "proj">> >>
  /\ [n \in 1..4 |-> log[1][n + 1].text] =
       <<"{{FOO}}", "{{X}}", "{{FOO}}", "{{AB}}">>
  /\ Len(log[1]) = 5

\* the path a recognized variable stands for
PathField(variableName) ==
  CASE variableName = "PROJECT_PATH" -> project.path
    [] variableName = "PRODASH_PATH" -> project.proDashPath
    [] variableName = "GLOBALCONFIG_PATH" -> gcfg
    [] variableName = "DESCRIPTION_FILE" -> project.descriptionFile
    [] variableName = "LONGDESCRIPTION_FILE" -> project.longDescriptionFile
    [] variableName = "FULLDESCRIPTION_FILE" -> project.fullDescriptionFile

HasBackslash(line) == \E k \in 1..Len(line) : line[k] = BSL

\* C24: the step that resolves a line without directive never fails; a
\* line "[{{V}}]" with a recognized variable V becomes "[" path "]" where
\* path is the field of V with every backslash turned into a forward
\* slash, and "[]" when the field is absent; a line that has no backslash
\* of its own is resolved to a line without backslash
RecognizedVariablesSubstituted ==
  [][\A e \in Execs :
       (AtLine(e) /\ ~IsDirective(CurLine)) =>
         LET top == frames'[Len(frames')]
             out == top.resolved[Len(top.resolved)]
         IN  /\ phase'[e] = "Expanding"
             /\ error'[e] = NoError
             /\ Len(top.resolved) = Len(Top.resolved) + 1
             /\ ~HasBackslash(CurLine) => ~HasBackslash(out)
             /\ \A v \in KnownVars :
                  CurLine = <<"[", LB, v, RB, "]">> =>
                    /\ Len(out) = 2 + (IF PathField(v) = NoPath THEN 0
                                       ELSE Len(PathField(v)))
                    /\ out[1] = "[" /\ out[Len(out)] = "]"
                    /\ \A k \in 2..(Len(out) - 1) :
                         out[k] = IF PathField(v)[k - 1] = BSL THEN FSL
                                  ELSE PathField(v)[k - 1]]_vars

\* Each is expanded for the project on C:\fresh, whose .prodash directory
\* has just been created and whose description files are undefined
EachVariableSubstituted ==
  /\ root[1].name = "Each"
  /\ phase[1] = "Expanded"
  /\ project.path = <<"C:", BSL, "fresh">>
  /\ allCommands[1] =
       << <<"[", "C:", FSL, "fresh", "]">>,
          <<"[", "C:", FSL, "fresh", FSL, ".prodash", "]">>,
          <<"[", "C:", FSL, "Users", FSL, "u", FSL, ".prodash", "]">>,
          <<"[", "]">>,
          <<"[", "]">>,
          <<"[", "]">> >>
  /\ Len(log[1]) = 1

\* the line holds no {{NAME}} token with the name of a recognized variable
NoRecognizedPlaceholder(line) ==
  \A i \in TokenStarts(line) : TokenName(line, i) \notin KnownVars

\* C25: a line without directive and without recognized placeholder is
\* appended to the command list as it is, and resolving the appended line
\* once more gives the same line; the same holds for every line of a
\* command list an expansion has returned
SubstitutionIdempotent ==
  /\ [](\A e \in Execs :
          phase[e] = "Expanded" =>
            \A k \in 1..Len(allCommands[e]) :
              NoRecognizedPlaceholder(allCommands[e][k]) =>
                ResolveVariables(allCommands[e][k], project, gcfg)
                  = allCommands[e][k])
  /\ [][\A e \in Execs :
          (AtLine(e) /\ ~IsDirective(CurLine)
             /\ NoRecognizedPlaceholder(CurLine)) =>
            LET top == frames'[Len(frames')]
                out == top.resolved[Len(top.resolved)]
            IN  /\ Len(top.resolved) = Len(Top.resolved) + 1
                /\ out = CurLine
                /\ ResolveVariables(out, project, gcfg) = out]_vars

\* Win = ["dir C:\tmp", "echo {{fOO}}{{}} }}{{"] is expanded: both lines
\* are in the command list as they were written
LiteralLinesUnchanged ==
  /\ root[1].name = "Win"
  /\ phase[1] = "Expanded"
  /\ allCommands[1] =
       << <<"dir C:", BSL, "tmp">>,
          <<"echo ", LB, "fOO", RB, LB, RB, " ", RB, LB>> >>
  /\ ResolveVariables(allCommands[1][1], project, gcfg) = allCommands[1][1]
  /\ Len(log[1]) = 1

----------------------------------------------------------------------------
(* The project list *)

Temporary(p) == p.description = "(Unregistered workspace)"

\* the directory names of a path, in lower case
RECURSIVE Segments(_)
Segments(path) ==
  IF path = <<>> THEN <<>>
  ELSE LET seps == {k \in 1..Len(path) : path[k] \in {FSL, BSL}}
       IN  IF seps = {}
           THEN <<Concat([k \in 1..Len(path) |-> ToLowerAtom(path[k])])>>
           ELSE LET k == Min(seps)
                    first == SubSeq(path, 1, k - 1)
                    rest == Segments(SubSeq(path, k + 1, Len(path)))
                IN  IF first = <<>> THEN rest
                    ELSE <<Concat([j \in 1..Len(first) |->
                                     ToLowerAtom(first[j])])>> \o rest

\* the folder is the directory dir or lies inside it
Inside(dir, folder) ==
  /\ Len(Segments(dir)) <= Len(Segments(folder))
  /\ SubSeq(Segments(folder), 1, Len(Segments(dir))) = Segments(dir)

\* C26: after every load the current project is undefined exactly when no
\* project of the list is active; otherwise it is the first active project
\* of the list, in which the configured projects, in the order of the file,
\* come before the temporary ones; every entry of the file that is not
\* left out is in the list, active or not
CurrentIsFirstActive ==
  /\ (currentProject = NoProject) <=> (\A k \in 1..Len(projects) :
                                         ~projects[k].isActive)
  /\ currentProject # NoProject =>
       \E k \in 1..Len(projects) :
         /\ currentProject = projects[k]
         /\ currentProject.isActive
         /\ \A j \in 1..(k - 1) : ~projects[j].isActive
  /\ \A j, k \in 1..Len(projects) :
       (j < k /\ Temporary(projects[j])) => Temporary(projects[k])
  /\ LET kept == {n \in 1..Len(projectsFile) :
                    ~StartsWithUnderscore(projectsFile[n].name)}
     IN  /\ \A n \in kept :
              \E k \in 1..Len(projects) :
                /\ ~Temporary(projects[k])
                /\ projects[k].name = projectsFile[n].name
                /\ projects[k].path = projectsFile[n].path
         /\ \A m, n \in kept :
              m < n =>
                \E j, k \in 1..Len(projects) :
                  /\ j < k
                  /\ projects[j].name = projectsFile[m].name
                  /\ projects[k].name = projectsFile[n].name

\* the file holds z and b, the window /a/bc and /a/b: z is not active, b
\* is, and a temporary project stands for /a/bc; b is current although the
\* folder of the temporary project comes first, and the three are listed
FirstOfTwoActive ==
  /\ workspaceFolders = <<<<FSL, "a", FSL, "b", "c">>, <<FSL, "a", FSL, "b">>>>
  /\ Len(projects) = 3
  /\ projects[1].name = "z" /\ ~projects[1].isActive
  /\ projects[2].name = "b" /\ projects[2].isActive
  /\ Temporary(projects[3]) /\ projects[3].name = "bc"
  /\ currentProject = projects[2]
  /\ shown = [what |-> "multipleActive", first |-> "b"]

\* C27: after every load a configured project is active exactly when one of
\* the folders of the window is its directory or lies inside it, the names
\* compared without regard to case and to the kind of separator; /a/b is
\* not active for the folders /a/bc and /a
ActiveIffFolderInside ==
  \A k \in 1..Len(projects) :
    ~Temporary(projects[k]) =>
      /\ projects[k].isActive <=>
           \E n \in 1..Len(workspaceFolders) :
             Inside(projects[k].path, workspaceFolders[n])
      /\ (/\ Segments(projects[k].path) = <<"a", "b">>
          /\ \A n \in 1..Len(workspaceFolders) :
               Segments(workspaceFolders[n]) \in {<<"a", "bc">>, <<"a">>})
           => ~projects[k].isActive

\* the window holds /a/bc and /a: the entry b (/a/b) is not active, and the
\* two folders have temporary projects
PrefixDoesNotActivate ==
  /\ Len(workspaceFolders) = 2
  /\ \A n \in 1..2 :
       Segments(workspaceFolders[n]) \in {<<"a", "bc">>, <<"a">>}
  /\ projects[1].name = "b"
  /\ projects[1].path = <<FSL, "a", FSL, "b">>
  /\ ~projects[1].isActive
  /\ Len(projects) = 3

\* C28: after every load each folder of the window either lies in an active
\* configured project or has a temporary project of its own, which is
\* active, and never both; the temporary projects stand for different
\* folders of the window
FoldersCoveredOnce ==
  /\ \A n \in 1..Len(workspaceFolders) :
       LET w == workspaceFolders[n]
           registered == \E k \in 1..Len(projects) :
                           /\ ~Temporary(projects[k])
                           /\ projects[k].isActive
                           /\ Inside(projects[k].path, w)
           temporary == \E k \in 1..Len(projects) :
                          /\ Temporary(projects[k])
                          /\ projects[k].path = w
       IN  /\ registered \/ temporary
           /\ ~(registered /\ temporary)
  /\ \A k \in 1..Len(projects) :
       Temporary(projects[k]) =>
         /\ projects[k].isActive
         /\ \E n \in 1..Len(workspaceFolders) :
              workspaceFolders[n] = projects[k].path
         /\ \A j \in 1..Len(projects) :
              (j # k /\ Temporary(projects[j])) =>
                projects[j].path # projects[k].path

\* the window holds /a/b/x and /a/bc, the file holds b (/a/b): /a/b/x is
\* covered by b and only /a/bc has a temporary project
UnregisteredFolderAdded ==
  /\ workspaceFolders = <<<<FSL, "a", FSL, "b", FSL, "x">>,
                          <<FSL, "a", FSL, "b", "c">>>>
  /\ Len(projects) = 2
  /\ projects[1].name = "b" /\ projects[1].isActive
  /\ projects[2] = [name |-> "bc", path |-> <<FSL, "a", FSL, "b", "c">>,
                    group |-> "Uncategorized",
                    description |-> "(Unregistered workspace)",
                    isActive |-> TRUE]

----------------------------------------------------------------------------
(* Activation scripts *)

\* C29: the ON_ACTIVATE scripts of a project path are started by at most one
\* promise chain: of two chains of one path, one has started no script
ActivatedOncePerPath ==
  \A c, d \in 1..Len(chains) :
    (c # d /\ chains[c].path = chains[d].path) =>
      (chains[c].execs = <<>> \/ chains[d].execs = <<>>)

\* C30: the scripts of a chain are the ON_ACTIVATE scripts of the project in
\* the order of the script file; the k-th execution of the chain runs the
\* k-th of them and is started only when the execution before it has
\* completed; an execution of the chain that has failed is the last one of
\* the chain, its failure is in the log, and a chain is halted only by such
\* a failure, which its catch has logged
SequentialActivation ==
  \A c \in 1..Len(chains) :
    LET ch == chains[c]
    IN  /\ {ch.scripts[k] : k \in 1..Len(ch.scripts)} =
             {r \in 1..Len(scripts) : scripts[r].event = "ON_ACTIVATE"}
        /\ \A j, k \in 1..Len(ch.scripts) : j < k => ch.scripts[j] < ch.scripts[k]
        /\ Len(ch.execs) <= Len(ch.scripts)
        /\ \A k \in 1..Len(ch.execs) :
             /\ Started(ch.execs[k])
             /\ root[ch.execs[k]] = scripts[ch.scripts[k]]
             /\ k > 1 => phase[ch.execs[k - 1]] = "Completed"
             /\ Failed(ch.execs[k]) =>
                  /\ k = Len(ch.execs)
                  /\ \E n \in 1..Len(log[ch.execs[k]]) :
                       log[ch.execs[k]][n] =
                         FailureEntry(root[ch.execs[k]], error[ch.execs[k]])
        /\ ch.status = "halted" =>
             /\ ch.execs # <<>>
             /\ Failed(LastExec(c))
             /\ \E n \in 1..Len(alog) : alog[n] = HaltedEntry(c)

\* Three, Twice and Ps are the ON_ACTIVATE scripts: Three has completed,
\* then Twice has failed at a command, the chain is halted and the failure
\* logged, and Ps has not been started
ThirdNeverStarted ==
  /\ Len(chains) = 1
  /\ Len(chains[1].scripts) = 3
  /\ chains[1].execs = <<1, 2>>
  /\ root[1].name = "Three" /\ phase[1] = "Completed"
  /\ root[2].name = "Twice" /\ phase[2] = "ExecutionFailed"
  /\ scripts[chains[1].scripts[3]].name = "Ps"
  /\ chains[1].status = "halted"
  /\ alog = <<HaltedEntry(1)>>

----------------------------------------------------------------------------
(* Classification of a line *)

\* C31: a line is classified once, directive first.  A step at a line that
\* holds a directive anywhere adds no line to the commands of the calling
\* script and logs no placeholder warning: it fails the expansion or enters
\* the script named by the first directive of the line; when that script
\* returns, its commands alone take the place of the line.  A step at a line
\* without directive appends the line with its variables substituted.
\* Busy = ["echo {{PROJECT_PATH}} {{FOO}} {{RUN_SCRIPT:Lint}} &&
\* {{RUN_SCRIPT:One}} tail", "echo {{PROJECT_PATH}}"] never enters One, and
\* its first line gives the command of Lint and nothing else
ClassifiedOnce ==
  /\ [](\A e \in Execs :
          root[e].name = "Busy" =>
            /\ \A k \in 1..Len(frames) : frames[k].script.name # "One"
            /\ \A k \in 1..Len(log[e]) : log[e][k].level # "warning"
            /\ phase[e] = "Expanded" =>
                 /\ Len(allCommands[e]) = 2
                 /\ allCommands[e][1] = <<"npm run lint">>
                 /\ allCommands[e][2] =
                      ResolveVariables(<<"echo ", LB, "PROJECT_PATH", RB>>,
                                       project, gcfg))
  /\ [][\A e \in Execs :
          /\ (AtLine(e) /\ \E i \in 1..Len(CurLine) : DirectiveAt(CurLine, i)) =>
               /\ log'[e] # log[e] =>
                    /\ phase'[e] = "ExpansionFailed"
                    /\ log'[e] = Append(log[e], FailureEntry(root[e], error'[e]))
               /\ \/ /\ phase'[e] = "ExpansionFailed"
                     /\ frames' = <<>>
                     /\ allCommands'[e] = NoCommands
                  \/ /\ phase'[e] = "Expanding"
                     /\ Len(frames') = Len(frames) + 1
                     /\ SubSeq(frames', 1, Len(frames)) = frames
                     /\ frames'[Len(frames')].script.name =
                          RunScriptName(CurLine)
                     /\ frames'[Len(frames')].resolved = <<>>
          /\ (AtEnd(e) /\ Len(frames) > 1) =>
               LET caller == frames[Len(frames) - 1]
                   back == frames'[Len(frames')]
               IN  /\ Len(frames') = Len(frames) - 1
                   /\ back.resolved = caller.resolved \o Top.resolved
                   /\ back.i = caller.i + 1
          /\ (AtLine(e) /\ \A i \in 1..Len(CurLine) : ~DirectiveAt(CurLine, i)) =>
               LET top == frames'[Len(frames')]
               IN  /\ Len(frames') = Len(frames)
                   /\ top.resolved =
                        Append(Top.resolved,
                               ResolveVariables(CurLine, project, gcfg))]_vars

\* Busy is expanded for the project on C:\proj: the text, both placeholders
\* and the second directive of its first line have left no trace
OnlyFirstDirectiveExpanded ==
  /\ root[1].name = "Busy"
  /\ phase[1] = "Expanded"
  /\ project = DefaultProject
  /\ allCommands[1] = << <<"npm run lint">>, <<"echo ", "C:", FSL, "proj">> >>
  /\ Len(log[1]) = 1

----------------------------------------------------------------------------
(* One script set per expansion *)

\* resolveScript over one fixed script set: the command list, or a failure
ExpandIn(all, script, seen) ==
  LET lines == Commands(script)
      RECURSIVE In(_, _), From(_, _)
      In(sc, sn) ==
        IF sc.name \in sn THEN [ok |-> FALSE, lines |-> <<>>]
        ELSE From(sc, [k |-> 1, sn |-> sn \cup {sc.name}, out |-> <<>>])
      From(sc, st) ==
        IF st.k > Len(Commands(sc)) THEN [ok |-> TRUE, lines |-> st.out]
        ELSE LET line == Commands(sc)[st.k]
                 n == FindIdx(all, RunScriptName(line))
             IN  IF ~IsDirective(line)
                 THEN From(sc, [st EXCEPT !.k = @ + 1,
                                          !.out = Append(@,
                                            ResolveVariables(line, project,
                                                             gcfg))])
                 ELSE IF n = 0 \/ EffTerminal(all[n]) # EffTerminal(sc)
                 THEN [ok |-> FALSE, lines |-> <<>>]
                 ELSE LET nested == In(all[n], st.sn)
                      IN  IF ~nested.ok THEN nested
                          ELSE From(sc, [st EXCEPT !.k = @ + 1,
                                                   !.out = @ \o nested.lines])
  IN  In(script, seen)

\* C32: the command list of a successful expansion is the one resolveScript
\* gives over one single content of the scripts file: every lookup of the
\* expansion has seen the same script set
ExpansionSeesOneSet ==
  \A e \in Execs :
    phase[e] = "Expanded" =>
      \E v \in EditVersions :
        /\ \E r \in 1..Len(v) : v[r] = root[e]
        /\ ExpandIn(v, root[e], {}) = [ok |-> TRUE, lines |-> allCommands[e]]

----------------------------------------------------------------------------
(* File events *)

\* a step in which contentAwareRefresh has run: it has created watchers or
\* has taken an event from the pending ones
EventStep ==
  \/ created' # created
  \/ pending' # pending /\ pending' \subseteq pending

\* the tree is refreshed once, from the files as they are, and the watchers
\* are created anew
RefreshedAndRebuilt ==
  /\ refreshes' = refreshes + 1
  /\ projects' =
       ResolvedProjects(ParseProjects(ReadFile(disk, GlobalProjectsFile)),
                        workspaceFolders)
  /\ \A k \in 1..Len(watchers) : created'[watchers[k]].disposed
  /\ Len(watchers') = Len(created') - Len(created)
  /\ \A k \in 1..Len(watchers') :
       /\ watchers'[k] = Len(created) + k
       /\ ~created'[watchers'[k]].disposed

\* nothing but the event is gone
NothingRefreshed ==
  /\ refreshes' = refreshes
  /\ UNCHANGED <<projectsFile, workspaceFolders, projects, currentProject,
                 shown, chains, lastFileContents, watchers, created, disk,
                 dashDirs, dashOf>>

\* C33 as stated: a file event refreshes the tree only when the content of
\* its file differs from the cached content; then the cache takes the new
\* content, the tree is refreshed once and the watchers are created anew
RefreshOnlyOnChange ==
  [][EventStep =>
       LET f == wlog'[1].file
       IN  IF lastFileContents[f] = ReadFile(disk, f)
           THEN NothingRefreshed
           ELSE /\ RefreshedAndRebuilt
                /\ lastFileContents'[f] = ReadFile(disk, f)]_vars

\* C33: a file event whose file can be read refreshes the tree only when the
\* content of the file (the empty string for a deleted file) differs from
\* the cached content: an identical content changes nothing, a differing
\* content is written to the cache, refreshes the tree exactly once and
\* creates the watchers anew.  An event whose file exists and cannot be read
\* logs a warning, refreshes the tree once and creates the watchers anew
\* whatever the content is
RefreshOnChangeOrReadError ==
  [][EventStep =>
       LET f == wlog'[1].file
       IN  IF wlog'[1].what = "unreadable"
           THEN /\ wlog'[1].level = "warning"
                /\ Exists(disk, f)
                /\ RefreshedAndRebuilt
           ELSE IF lastFileContents[f] = ReadFile(disk, f)
                THEN wlog'[1].what = "identical" /\ NothingRefreshed
                ELSE /\ wlog'[1].what = "changed"
                     /\ RefreshedAndRebuilt
                     /\ lastFileContents'[f] = ReadFile(disk, f)]_vars

\* the scripts file of /a/b was changed to s2, which refreshed the tree
\* once and created the watchers anew; it was then written again with the
\* same content, and that event was ignored
RewriteIgnored ==
  /\ refreshes = 1
  /\ Len(created) > Len(watchers)
  /\ disk[ScriptsFile(ProDashFolder(WatchHome))] = "s2"
  /\ lastFileContents[ScriptsFile(ProDashFolder(WatchHome))] = "s2"
  /\ wlog = Entry1("info", "identical", ScriptsFile(ProDashFolder(WatchHome)))
  /\ pending = {}

----------------------------------------------------------------------------
(* Live watchers *)

\* the number of projects of a load that have a dashboard directory
WithDashboard(paths) == Cardinality({k \in 1..Len(paths) : paths[k] # NoPath})

\* C39: the watchers that are not disposed are exactly those of the array,
\* and these are the ones created last: the first of them watches the global
\* projects file, the others come in fours on one dashboard directory each.
\* A run of initWatchers disposes every watcher that was live, and creates
\* one watcher for the projects file and four for every project of the list
\* that has a dashboard directory
WatchersOfLatestRun ==
  /\ [](/\ \A k \in 1..Len(created) :
             ~created[k].disposed <=> \E j \in 1..Len(watchers) : watchers[j] = k
        /\ Len(watchers) >= 1
        /\ \A j \in 1..Len(watchers) :
             watchers[j] = Len(created) - Len(watchers) + j
        /\ created[watchers[1]].file = GlobalProjectsFile
        /\ (Len(watchers) - 1) % 4 = 0
        /\ \A j \in 2..Len(watchers) :
             created[watchers[j]].file =
               DashboardFiles(created[watchers[j - ((j - 2) % 4)]].file.dir)
                 [((j - 2) % 4) + 1]
        /\ refreshes = 0 =>
             [j \in 1..Len(watchers) |-> created[watchers[j]].file]
               = WatchedFiles(dashOf))
  /\ [][created' # created =>
          /\ \A k \in 1..Len(created) : created'[k].disposed
          /\ Len(created') = Len(created) + 1 + 4 * WithDashboard(dashOf')
          /\ [j \in 1..Len(watchers') |-> created'[watchers'[j]].file]
               = WatchedFiles(dashOf')]_vars

\* the watchers were created three times: one and four at the start for
\* projects.jsonc and the project /a/b, then twice one and eight, for /a/b
\* and /a/b/x of the same dashboard directory; the first fourteen are
\* disposed
ThreeRunsNineLive ==
  /\ refreshes = 2
  /\ Len(created) = 23
  /\ Len(watchers) = 9
  /\ dashOf = <<ProDashFolder(WatchHome), ProDashFolder(WatchHome)>>
  /\ \A k \in 1..14 : created[k].disposed
  /\ \A k \in 15..23 : ~created[k].disposed

----------------------------------------------------------------------------
(* One terminal kind per expansion *)

\* the scripts whose lines the complete expansion of script r holds
Contributors(r) == {r} \cup {scripts[j] : j \in Closure(Targets(r)) \ {0}}

\* C34: every script an expansion has entered has the terminal kind of the
\* root script, a missing kind counting as "default"; once the expansion
\* has succeeded, every script it holds lines of, at any depth, has that
\* kind, so the kind execute hands to runInTerminal names the terminal
\* each of them declares
OneTerminalPerExpansion ==
  /\ (cur = 1 /\ phase[1] = "Expanding") =>
       \A k \in 1..Len(frames) :
          TerminalKind(frames[k].script) = TerminalKind(root[1])
  /\ phase[1] = "Expanded" =>
       \A s \in Contributors(root[1]) :
          /\ TerminalKind(s) = TerminalKind(root[1])
          /\ TerminalName(s.terminal) = TerminalName(root[1].terminal)

\* a batch script expanded through two levels of batch scripts
ThreeBatchScriptsExpanded ==
  /\ phase[1] = "Expanded"
  /\ root[1].terminal = "batch"
  /\ Cardinality(Contributors(root[1])) >= 3
  /\ allCommands[1] # <<>>

----------------------------------------------------------------------------
(* End events and the executions that wait *)

\* execution e is past the command it was waiting for
WaitSettled(e) ==
  /\ phase[e] = "AwaitCommand"
  /\ phase'[e] # "AwaitCommand" \/ idx'[e] # idx[e]

\* C35: the wait of an execution is settled only by the end event of the
\* command it waits for, whose listener is disposed in that step; the step
\* leaves every other waiting execution waiting for the same command, its
\* listener registered, its error and the exit codes it has seen as they
\* were; and an end event settles the wait of the execution whose command
\* it is of
EndEventSettlesItsOwnWait ==
  /\ [][\A e \in Execs :
          WaitSettled(e) =>
            /\ <<e, idx[e]>> \in inflight
            /\ <<e, idx[e]>> \notin inflight'
            /\ EndListener(e, idx[e]) \notin listeners'
            /\ Len(ended'[e]) = Len(ended[e]) + 1
            /\ \A f \in Execs \ {e} :
                 phase[f] = "AwaitCommand" =>
                   /\ phase'[f] = "AwaitCommand"
                   /\ idx'[f] = idx[f]
                   /\ error'[f] = error[f]
                   /\ ended'[f] = ended[f]
                   /\ <<f, idx[f]>> \in inflight'
                   /\ EndListener(f, idx[f]) \in listeners']_vars
  /\ [][\A h \in inflight :
          h \notin inflight' =>
            /\ h[2] = idx[h[1]]
            /\ WaitSettled(h[1])
            /\ inflight \ inflight' = {h}]_vars

\* both executions wait in one terminal; the second has waited for its
\* first command since before the first command of the other ended
OtherStillWaiting ==
  /\ phase[1] = "AwaitCommand"
  /\ phase[2] = "AwaitCommand"
  /\ idx[1] = 2
  /\ idx[2] = 1
  /\ ended[1] = <<0>>
  /\ ended[2] = <<>>
  /\ runTerm[1] = runTerm[2]
  /\ \E i, j \in 1..Len(terminals[runTerm[1]].got) :
       /\ i < j
       /\ terminals[runTerm[1]].got[i].exec = 2
       /\ terminals[runTerm[1]].got[j].exec = 1
       /\ terminals[runTerm[1]].got[j].k = 2

----------------------------------------------------------------------------
(* What an execution has sent *)

\* what terminal t has been given by execution e, in the order it got it
SentTo(terms, t, e) == SelectSeq(terms[t].got, LAMBDA g : g.exec = e)

\* C36: in every state, with or without completion signaling, what an
\* execution has sent is in one terminal and is the first lines of its flat
\* command list, each once and in the order of the list; a step never takes
\* back or reorders what a terminal has got, and adds lines of one
\* execution only
SentIsPrefix ==
  /\ [](\A e \in Execs :
          \A t \in 1..Len(terminals) :
            LET sent == SentTo(terminals, t, e)
            IN  /\ sent # <<>> => t = runTerm[e]
                /\ Len(sent) <= Len(allCommands[e])
                /\ \A k \in 1..Len(sent) :
                     /\ sent[k].k = k
                     /\ sent[k].line = allCommands[e][k]
                     /\ sent[k].api =
                          (IF hasSI[e] THEN "executeCommand" ELSE "sendText"))
  /\ [][Len(terminals') >= Len(terminals)]_vars
  /\ [][\A t \in 1..Len(terminals) :
          /\ Len(terminals'[t].got) >= Len(terminals[t].got)
          /\ SubSeq(terminals'[t].got, 1, Len(terminals[t].got)) =
               terminals[t].got]_vars
  /\ [][Cardinality({e \in Execs :
                       \E u \in 1..Len(terminals') :
                         \E k \in 1..Len(terminals'[u].got) :
                           /\ terminals'[u].got[k].exec = e
                           /\ \/ u > Len(terminals)
                              \/ k > Len(terminals[u].got)}) <= 1]_vars

\* one terminal holds the three lines an execution has sent at once without
\* signaling and the first two lines of an execution that waits for the
\* end of its second command
BothModesInOneTerminal ==
  \E e, f \in Execs :
    /\ e # f
    /\ runTerm[e] # 0
    /\ runTerm[e] = runTerm[f]
    /\ ~hasSI[e]
    /\ Len(SentTo(terminals, runTerm[e], e)) = 3
    /\ phase[f] = "AwaitCommand"
    /\ Len(SentTo(terminals, runTerm[f], f)) = 2
    /\ Len(allCommands[f]) = 3

----------------------------------------------------------------------------
(* The listeners for the end of a command *)

EndListeners == {l \in listeners : l.on = "end"}

\* the commands given to executeCommand so far, as <<execution, index>>
Executed(terms) ==
  UNION {{<<terms[t].got[k].exec, terms[t].got[k].k>> :
            k \in {j \in 1..Len(terms[t].got) :
                     terms[t].got[j].api = "executeCommand"}} :
           t \in 1..Len(terms)}

\* C37: the listener for the end of a command is registered in the step
\* that gives the command to executeCommand and in no other; it is disposed
\* in the step in which the end event of this command arrives and in no
\* other, so it is registered exactly while its command runs and its
\* execution waits for it; an execution that is Completed or
\* ExecutionFailed has no such listener
ListenerLifetime ==
  /\ [](\A l \in EndListeners :
          /\ <<l.exec, l.k>> \in inflight
          /\ phase[l.exec] = "AwaitCommand"
          /\ idx[l.exec] = l.k)
  /\ [](\A h \in inflight : EndListener(h[1], h[2]) \in listeners)
  /\ [](\A e \in Execs :
          phase[e] \in {"Completed", "ExecutionFailed"} =>
            \A l \in EndListeners : l.exec # e)
  /\ [][{<<l.exec, l.k>> : l \in EndListeners' \ EndListeners} =
          Executed(terminals') \ Executed(terminals)]_vars
  /\ [][\A l \in EndListeners \ EndListeners' :
          /\ <<l.exec, l.k>> \in inflight \ inflight'
          /\ Len(ended'[l.exec]) = Len(ended[l.exec]) + 1]_vars
  /\ [][\A h \in inflight \ inflight' :
          EndListener(h[1], h[2]) \in listeners \ listeners']_vars

\* the first execution has completed after three end events and has no
\* listener left; the only listener is that of the second, which waits
CompletedLeavesNoListener ==
  /\ phase[1] = "Completed"
  /\ hasSI[1]
  /\ ended[1] = <<0, 0, 0>>
  /\ phase[2] = "AwaitCommand"
  /\ listeners = {EndListener(2, idx[2])}

----------------------------------------------------------------------------
(* The order of the checks *)

NoFailure == <<"none">>

RECURSIVE FirstFailure(_, _)
RECURSIVE FirstFailureFrom(_, _, _)

\* the first failure met when script is entered with the names in seen: the
\* cycle on entering, then the lines in their order
FirstFailure(script, seen) ==
  IF \E k \in 1..Len(seen) : seen[k] = script.name
  THEN <<"recursive", script.name>>
  ELSE FirstFailureFrom(script, Append(seen, script.name), 1)

\* the first failure from line i of script on: for a directive, the target
\* that is not there, then the terminal of another kind, then what entering
\* the target meets
FirstFailureFrom(script, seen, i) ==
  IF i > Len(Commands(script)) THEN NoFailure
  ELSE IF ~IsDirective(Commands(script)[i])
  THEN FirstFailureFrom(script, seen, i + 1)
  ELSE LET name == RunScriptName(Commands(script)[i])
           hits == {j \in 1..Len(scripts) : scripts[j].name = name}
       IN  IF hits = {} THEN <<"notFound", name>>
           ELSE LET target == scripts[Min(hits)]
                IN  IF TerminalKind(script) # TerminalKind(target)
                    THEN <<"mismatch", script.name, target.name>>
                    ELSE LET inner == FirstFailure(target, seen)
                         IN  IF inner # NoFailure THEN inner
                             ELSE FirstFailureFrom(script, seen, i + 1)

\* C38: an expansion ends with the failure met first when the lines are
\* taken in their order and, for each directive, the target is looked up,
\* then the terminals are compared, then the target is entered and the
\* cycle is looked for; so two scripts of different terminals that call
\* each other give the mismatch error and never the cycle error, and an
\* unknown target on an earlier line is reported, not a cycle on a later
\* line; an expansion to which this order shows no failure succeeds
ChecksInOrder ==
  Finished(1) =>
    /\ <<error[1].kind>> \o ErrorNames(error[1]) = FirstFailure(root[1], <<>>)
    /\ phase[1] = "Expanded" <=> error[1] = NoError
    /\ error[1].kind = "recursive" =>
         \A k \in 1..Len(thrownAt[1]) :
           \A j \in 1..Len(scripts) :
             scripts[j].name = thrownAt[1][k] =>
               TerminalKind(scripts[j]) = TerminalKind(root[1])

\* Back (no terminal) and Forth (batch) call each other: mismatch
BackEdgeMismatch ==
  /\ phase[1] = "ExpansionFailed"
  /\ root[1].name = "Back"
  /\ error[1].kind = "mismatch"
  /\ error[1].child = "Forth"
  /\ FindIdx(scripts, "Forth") \in ReachFrom(FindIdx(scripts, "Back"))
  /\ FindIdx(scripts, "Back") \in ReachFrom(FindIdx(scripts, "Forth"))

============================================================================
